---- MODULE Spec2Model ----
(***************************************************************************)
(* ms-rewards-agent: the answer cache (QACache), the metrics store         *)
(* (MetricsStore), the two task controllers (ClickHandler, QuizHandler),   *)
(* the Humanizer, generateMousePath and the click point, the search query  *)
(* of an explore card, Storage<T> step by step, the BrowserAdapter and     *)
(* main, each as a state machine translated from its source.               *)
(*                                                                         *)
(* Each component has its own specification (SpecCache, SpecRuns,          *)
(* SpecPoints, SpecClick, SpecQuiz, SpecDiscover, SpecFaulty,              *)
(* SpecHumanizer, SpecMousePath, SpecClickPoint, SpecExplore, SpecStorage, *)
(* SpecStorageAny, SpecAdapter, SpecMain; SpecHandlers runs either         *)
(* controller; SpecQuizFair is SpecQuiz with the steps of the solve loop   *)
(* taken when they can be): a specification moves its own variables and    *)
(* leaves the others at their idle values.                                 *)
(***************************************************************************)
EXTENDS Integers, Sequences, FiniteSets, TLC

VARIABLES
    \* QACache: Storage<Record<string, QARecord>>
    cache,          \* Storage.data of the cache: questionHash -> QARecord
    cacheFile,      \* the cache document on disk
    lastStore,      \* history: the arguments of the last QACache.store call
    \* MetricsStore: Storage<MetricsData>
    metrics,        \* Storage.data: [runs, dailyPoints]
    metricsFile,    \* the metrics document on disk
    today,          \* the day new Date() falls on
    clock,          \* the instant new Date() returns
    recorded,       \* history: every run recorded so far, in order
    pointsSum,      \* history: (date, source) -> sum of the amounts recorded
    lastPoints,     \* history: the last recordPoints call and the data before it
    nCalls,         \* number of calls made so far on the store under study
    \* A task controller's run(page)
    cfg,            \* this.config: [dryRun, maxActionsPerHour]
    dashboard,      \* the rewards page: the cards each locator finds
    pc,             \* where run is: "idle", "navigate", "discover", "loop", "done"
    result,         \* the ActionResult run builds and returns
    startTime,      \* const startTime = Date.now()
    now,            \* the wall clock, as last read
    thrown,         \* the error the top-level catch of run caught, if any
    opsIssued,      \* history: the kinds of page operation issued during the run
    lastOps,        \* history: the last item handled: its page operations in order,
                    \* the operation that failed ("" when none did), and the tabs
                    \* it left
    pageAt,         \* page.url(): where the shared page is pointed
    \* ClickHandler.run
    activities,     \* const activities = await this.findClickableActivities(page)
    idx,            \* position of the for loop in activities (next to consider)
    clickedCount,   \* let clickedCount
    outcomes,       \* history: per attempted item, [index, title, success]
    \* QuizHandler.run and handleQuiz
    quizzes,        \* const quizzes = await this.findQuizActivities(page)
    quizIdx,        \* position of the for loop in quizzes (next to consider)
    completedCount, \* let completedCount
    hqElapsed,      \* handleQuiz: Date.now() - startTime, in ms
    options,        \* handleQuiz: options.length of the last findOptions
    optIdx,         \* handleQuiz: position of the for loop in options
    lastQuiz,       \* history: how the body of the loop was left for the last quiz
                    \* and the time handleQuiz had measured then
    \* Humanizer: one call of clickHuman, clickLocatorHuman, typeHuman or
    \* clearAndTypeHuman
    humanizer,      \* [method, text, box, pc, i, events, thrown]
    \* generateMousePath: one call
    mousePath,      \* [args, pc, path]: the arguments with the values Math.random()
                    \* takes, and the path returned
    \* Storage<T>: one store over its file, save taken step by step
    storage,        \* [data, file, temp, pc, alive, old, saves]
    \* BrowserAdapter
    adapter,        \* [browser, context, page, contexts, log]
    \* main
    mainProc,       \* [config, pc, results, fatal, exitCode]
    \* the click point of clickHuman / clickLocatorHuman
    clickPoint,     \* [box, kx, ky, pc, target]
    \* the search query of an explore card
    explore         \* [title, description, pc, activity, query]

cacheVars == <<cache, cacheFile, lastStore>>
metricsVars == <<metrics, metricsFile, today, clock, recorded, pointsSum, lastPoints, nCalls>>
runVars == <<cfg, dashboard, pc, result, startTime, now, thrown, opsIssued, lastOps, pageAt>>
clickVars == <<activities, idx, clickedCount, outcomes>>
quizVars == <<quizzes, quizIdx, completedCount, hqElapsed, options, optIdx, lastQuiz>>
controllerVars == <<runVars, clickVars, quizVars>>
toolVars == <<humanizer, mousePath, storage, adapter, mainProc, clickPoint, explore>>
vars == <<cacheVars, metricsVars, controllerVars, toolVars>>

(***************************************************************************)
(* Values                                                                  *)
(***************************************************************************)
\* An optional value (undefined | v) is a sequence of length 0 or 1.
None == <<>>
Some(v) == <<v>>

Min(a, b) == IF a <= b THEN a ELSE b
Max(a, b) == IF a >= b THEN a ELSE b

\* Array.prototype.slice(-n) for n >= 0: the last n elements (all when shorter).
\* slice(-0) is slice(0): the whole array.
SliceLast(s, n) ==
    IF n = 0 \/ Len(s) <= n THEN s ELSE SubSeq(s, Len(s) - n + 1, Len(s))

(***************************************************************************)
(* Text: a string is a sequence of characters.                             *)
(***************************************************************************)
Chars == {"A", "a", "b", "2", " ", "?"}
WhiteSpace == {" "}

\* String.prototype.toLowerCase on one character
ToLowerChar(c) == IF c = "A" THEN "a" ELSE c

\* String.prototype.charCodeAt for the characters that survive normalisation
CharCode(c) ==
    CASE c = " " -> 32
      [] c = "2" -> 50
      [] c = "A" -> 65
      [] c = "?" -> 63
      [] c = "a" -> 97
      [] c = "b" -> 98

\* /[^a-z0-9\s]/ : the characters the first replace removes
IsKept(c) == c \in {"a", "b", "2"} \cup WhiteSpace

RECURSIVE MapLower(_)
MapLower(s) == IF s = <<>> THEN <<>> ELSE <<ToLowerChar(Head(s))>> \o MapLower(Tail(s))

RECURSIVE StripOther(_)
StripOther(s) ==
    IF s = <<>> THEN <<>>
    ELSE (IF IsKept(Head(s)) THEN <<Head(s)>> ELSE <<>>) \o StripOther(Tail(s))

\* .replace(/\s+/g, ' ') : every run of whitespace becomes one space
RECURSIVE CollapseSpace(_)
CollapseSpace(s) ==
    IF s = <<>> THEN <<>>
    ELSE IF Head(s) \in WhiteSpace
         THEN IF Tail(s) # <<>> /\ Head(Tail(s)) \in WhiteSpace
              THEN CollapseSpace(Tail(s))
              ELSE <<" ">> \o CollapseSpace(Tail(s))
         ELSE <<Head(s)>> \o CollapseSpace(Tail(s))

RECURSIVE TrimLeft(_)
TrimLeft(s) == IF s # <<>> /\ Head(s) \in WhiteSpace THEN TrimLeft(Tail(s)) ELSE s

RECURSIVE TrimRight(_)
TrimRight(s) ==
    IF s # <<>> /\ s[Len(s)] \in WhiteSpace THEN TrimRight(SubSeq(s, 1, Len(s) - 1)) ELSE s

\* String.prototype.trim
Trim(s) == TrimRight(TrimLeft(s))

\* A plausible slip: the whitespace collapsed before the other characters
\* are removed
NormalizeCollapseFirst(question) == Trim(StripOther(CollapseSpace(MapLower(question))))

\* hashQuestion, the normalisation
Normalize(question) == Trim(CollapseSpace(StripOther(MapLower(question))))

(***************************************************************************)
(* hashQuestion: djb2 over the normalised text in 32-bit arithmetic.  A    *)
(* 32-bit word is kept as two 16-bit halves <<hi, lo>> so that no          *)
(* intermediate value leaves the range the checker computes in.            *)
(***************************************************************************)
Half == 65536
HashSeed == 5381
HashShift == 5

Pow2(n) == IF n = 0 THEN 1 ELSE IF n = 1 THEN 2 ELSE IF n = 2 THEN 4
           ELSE IF n = 3 THEN 8 ELSE IF n = 4 THEN 16 ELSE 32

\* hash = ((hash << 5) + hash) + c ; hash = hash & hash   (ToInt32 of 33*hash + c)
HashStep(w, c) ==
    LET m  == Pow2(HashShift) + 1
        lo == m * w[2] + c
        hi == m * w[1] + (lo \div Half)
    IN  <<hi % Half, lo % Half>>

RECURSIVE HashLoop(_, _)
HashLoop(w, s) == IF s = <<>> THEN w ELSE HashLoop(HashStep(w, CharCode(Head(s))), Tail(s))

\* Math.abs of the signed 32-bit value of w, again as two halves
AbsWord(w) ==
    IF w[1] < Half \div 2 THEN w
    ELSE IF w[2] = 0 THEN <<(Half - w[1]) % Half, 0>>
         ELSE <<Half - 1 - w[1], Half - w[2]>>

\* Number.prototype.toString(16): the hexadecimal digits, most significant first
RECURSIVE HexDigits(_)
HexDigits(n) == IF n < 16 THEN <<n>> ELSE HexDigits(n \div 16) \o <<n % 16>>

Pad4(d) == IF Len(d) = 4 THEN d
           ELSE IF Len(d) = 3 THEN <<0>> \o d
           ELSE IF Len(d) = 2 THEN <<0, 0>> \o d
           ELSE <<0, 0, 0>> \o d

ToHex(w) == IF w[1] = 0 THEN HexDigits(w[2]) ELSE HexDigits(w[1]) \o Pad4(HexDigits(w[2]))

hashQuestion(question) ==
    ToHex(AbsWord(HashLoop(<<0, HashSeed>>, Normalize(question))))

(***************************************************************************)
(* Storage<T>                                                              *)
(***************************************************************************)
\* Storage.save: the document on disk after save() of data; a failed write
\* or rename is caught and leaves the file as it was.
StorageSave(data, file, writeOk) == IF writeOk THEN data ELSE file

(***************************************************************************)
(* QACache                                                                 *)
(***************************************************************************)
\* The questions the cache is asked about: raw spellings, several of which
\* normalise to the same text.
Questions ==
    { <<"A", "?">>, <<" ", "a", " ">>, <<"b">>, <<"a", " ", "?", " ", "b">>,
      <<"A", " ", "b">> }
AnswerIndices == {0, 1}
Evidences == {None, Some(<<"e1">>)}

QARecordOf(hash, answerIndex, correct, evidence) ==
    [questionHash |-> hash, answerIndex |-> answerIndex,
     correct |-> correct, evidence |-> evidence]

\* QACache.lookup: cache[hash] || null
lookup(question) ==
    LET hash == hashQuestion(question)
    IN  IF hash \in DOMAIN cache THEN Some(cache[hash]) ELSE None

\* A plausible slip: the write-skip rule left out.
StoreUpdaterOverwrite(c, hash, record, correct) ==
    [k \in (DOMAIN c) \cup {hash} |-> IF k = hash THEN record ELSE c[k]]

\* The updater store passes to Storage.update
StoreUpdater(c, hash, record, correct) ==
    IF hash \in DOMAIN c /\ c[hash].correct /\ ~correct
    THEN c
    ELSE [k \in (DOMAIN c) \cup {hash} |-> IF k = hash THEN record ELSE c[k]]

\* QACache.store(question, answerIndex, correct, evidence)
Store(question, answerIndex, correct, evidence, writeOk) ==
    LET hash   == hashQuestion(question)
        record == QARecordOf(hash, answerIndex, correct, evidence)
    IN  /\ cache' = StoreUpdater(cache, hash, record, correct)
        /\ cacheFile' = StorageSave(cache', cacheFile, writeOk)
        /\ lastStore' = Some([question |-> question, hash |-> hash, record |-> record,
                              before |-> lookup(question)])

\* A plausible slip: any cached record taken as certain
getConfidenceAnyRecord(question) ==
    LET r == lookup(question)
    IN  IF r = None THEN 0 ELSE 10

\* QACache.getConfidence, in tenths (0, 0.3, 1.0)
getConfidence(question) ==
    LET r == lookup(question)
    IN  IF r = None THEN 0 ELSE IF r[1].correct THEN 10 ELSE 3

\* Number of store calls explored
MaxStores == 3

StoreAction ==
    /\ nCalls < MaxStores
    /\ nCalls' = nCalls + 1
    /\ \E q \in Questions, a \in AnswerIndices, c \in BOOLEAN, e \in Evidences :
           Store(q, a, c, e, TRUE)
    /\ UNCHANGED <<metrics, metricsFile, today, clock, recorded, pointsSum, lastPoints>>
    /\ UNCHANGED <<controllerVars, toolVars>>

(***************************************************************************)
(* MetricsStore                                                            *)
(***************************************************************************)
RunsSliceKeep == 999     \* data.runs.slice(-999)
DailySliceKeep == 365    \* data.dailyPoints.slice(-365)

Handlers == {"ClickHandler", "QuizHandler"}
RunStatuses == {"ok", "failed"}
Sources == {"click", "quiz"}
PointAmounts == {10, 15}

RunMetricOf(timestamp, handler, status, durationMs, attempts, meta) ==
    [timestamp |-> timestamp, handler |-> handler, status |-> status,
     durationMs |-> durationMs, attempts |-> attempts, meta |-> meta]

DailyPointsOf(date, points, source) == [date |-> date, points |-> points, source |-> source]

\* A plausible slip: slice(-1000) for "keep last 1000 runs"
RecordRunUpdaterOffByOne(data, run) ==
    [data EXCEPT !.runs = SliceLast(data.runs, RunsSliceKeep + 1) \o <<run>>]

\* The updater recordRun passes to Storage.update
RecordRunUpdater(data, run) ==
    [data EXCEPT !.runs = SliceLast(data.runs, RunsSliceKeep) \o <<run>>]

\* Array.prototype.findIndex(d => d.date === today && d.source === source); 0 for -1
FindIndex(dailyPoints, date, source) ==
    LET hits == {i \in 1..Len(dailyPoints) :
                    dailyPoints[i].date = date /\ dailyPoints[i].source = source}
    IN  IF hits = {} THEN 0 ELSE CHOOSE i \in hits : \A j \in hits : i <= j

\* A plausible slip: the existing entry is not looked for, every call appends
RecordPointsUpdaterAppend(data, date, points, source) ==
    [data EXCEPT !.dailyPoints =
        SliceLast(data.dailyPoints, DailySliceKeep) \o <<DailyPointsOf(date, points, source)>>]

\* The updater recordPoints passes to Storage.update
RecordPointsUpdater(data, date, points, source) ==
    LET existingIndex == FindIndex(data.dailyPoints, date, source)
    IN  IF existingIndex >= 1
        THEN [data EXCEPT !.dailyPoints[existingIndex].points = @ + points]
        ELSE [data EXCEPT !.dailyPoints =
                 SliceLast(data.dailyPoints, DailySliceKeep)
                     \o <<DailyPointsOf(date, points, source)>>]

\* MetricsStore.recordRun(handler, status, durationMs, attempts, meta)
RecordRun(handler, status, durationMs, attempts, meta, writeOk) ==
    LET run == RunMetricOf(clock, handler, status, durationMs, attempts, meta)
    IN  /\ metrics' = RecordRunUpdater(metrics, run)
        /\ metricsFile' = StorageSave(metrics', metricsFile, writeOk)
        /\ clock' = clock + 1
        /\ recorded' = Append(recorded, run)
        /\ UNCHANGED <<today, pointsSum, lastPoints>>

\* MetricsStore.recordPoints(points, source)
RecordPoints(points, source, writeOk) ==
    LET key == <<today, source>>
    IN  /\ metrics' = RecordPointsUpdater(metrics, today, points, source)
        /\ metricsFile' = StorageSave(metrics', metricsFile, writeOk)
        /\ pointsSum' = [k \in (DOMAIN pointsSum) \cup {key} |->
                            IF k = key
                            THEN (IF key \in DOMAIN pointsSum THEN pointsSum[key] ELSE 0) + points
                            ELSE pointsSum[k]]
        /\ lastPoints' = Some([date |-> today, source |-> source, points |-> points,
                               before |-> metrics])
        /\ UNCHANGED <<today, clock, recorded>>

\* MetricsStore.getTodayPoints
RECURSIVE SumPoints(_, _)
SumPoints(dailyPoints, date) ==
    IF dailyPoints = <<>> THEN 0
    ELSE (IF Head(dailyPoints).date = date THEN Head(dailyPoints).points ELSE 0)
         + SumPoints(Tail(dailyPoints), date)

getTodayPoints == SumPoints(metrics.dailyPoints, today)

\* Bounds of the metrics specifications
MaxRunCalls == 5
MaxPointCalls == 3
MaxDays == 2

RecordRunAction ==
    /\ nCalls < MaxRunCalls
    /\ nCalls' = nCalls + 1
    /\ \E h \in Handlers, s \in RunStatuses :
           RecordRun(h, s, 100, 1, None, TRUE)
    /\ UNCHANGED <<cacheVars, controllerVars, toolVars>>

RecordPointsAction ==
    /\ nCalls < MaxPointCalls
    /\ nCalls' = nCalls + 1
    /\ \E p \in PointAmounts, src \in Sources :
           RecordPoints(p, src, TRUE)
    /\ UNCHANGED <<cacheVars, controllerVars, toolVars>>

\* Midnight (UTC) passes: new Date().toISOString().split('T')[0] changes
AdvanceDay ==
    /\ today < DailySliceKeep + 1 + MaxDays
    /\ today' = today + 1
    /\ UNCHANGED <<cacheVars, metrics, metricsFile, clock, recorded, pointsSum, lastPoints, nCalls>>
    /\ UNCHANGED <<controllerVars, toolVars>>

(***************************************************************************)
(* Page text.  A text is a sequence of tokens: a word, a space or a        *)
(* punctuation mark each.                                                  *)
(***************************************************************************)
\* toLowerCase / the i flag, per token
LowerToken(t) ==
    CASE t = "Search" -> "search"
      [] t = "On" -> "on"
      [] t = "Bing" -> "bing"
      [] t = "To" -> "to"
      [] t = "For" -> "for"
      [] OTHER -> t

\* \s+ at the head of s: the rest after the run, or None when s has no run there
SkipSpaces1(s) == IF s # <<>> /\ Head(s) \in WhiteSpace THEN Some(TrimLeft(s)) ELSE None

\* one literal word of the pattern at the head of s, case-insensitively
SkipWord(s, words) ==
    IF s # <<>> /\ LowerToken(Head(s)) \in words THEN Some(Tail(s)) ELSE None

\* SkipWord then SkipSpaces1, threaded through an optional rest
ThenWord(r, words) == IF r = None THEN None ELSE SkipWord(r[1], words)
ThenSpaces1(r) == IF r = None THEN None ELSE SkipSpaces1(r[1])

\* .replace(/^search\s+on\s+bing\s+(?:to|for)\s*[:\-<en dash>]?\s*/i, '')
StripSearchPrefix(s) ==
    LET m == ThenWord(ThenSpaces1(ThenWord(ThenSpaces1(ThenWord(ThenSpaces1(
                 SkipWord(s, {"search"})), {"on"})), {"bing"})), {"to", "for"})
    IN  IF m = None THEN s
        ELSE LET a == TrimLeft(m[1])
                 b == IF a # <<>> /\ Head(a) \in {":", "-", "en-dash"} THEN Tail(a) ELSE a
             IN  TrimLeft(b)

\* A plausible slip: the cleaned text returned even when it is empty
normalizeExploreQueryCleaned(text) ==
    LET trimmed == Trim(text)
    IN  IF trimmed = <<>> THEN <<>> ELSE Trim(StripSearchPrefix(trimmed))

\* ClickHandler.normalizeExploreQuery
normalizeExploreQuery(text) ==
    LET trimmed == Trim(text)
    IN  IF trimmed = <<>> THEN <<>>
        ELSE LET cleaned == Trim(StripSearchPrefix(trimmed))
             IN  IF cleaned # <<>> THEN cleaned ELSE trimmed

\* ClickHandler.getExploreQuery
getExploreQuery(activity) ==
    LET fromDescription ==
            IF activity.description # None /\ activity.description[1] # <<>>
            THEN normalizeExploreQuery(activity.description[1])
            ELSE <<>>
    IN  IF fromDescription # <<>> THEN fromDescription
        ELSE normalizeExploreQuery(activity.title)

(***************************************************************************)
(* Click-activity discovery                                                *)
(*                                                                         *)
(* A card of the dashboard is what the locators of processCard read from   *)
(* it: visible, completed (a completion indicator is present), hasPoints   *)
(* (the "Points you will earn" label), isQuiz, title (the text of the      *)
(* first title element, None when it has no text), description (None when  *)
(* reading it rejects), hasLink, and throwsAt: the read of processCard     *)
(* that rejects, if any.                                                   *)
(***************************************************************************)
CardOf(visible, completed, hasPoints, isQuiz, title, description, hasLink, throwsAt) ==
    [visible |-> visible, completed |-> completed, hasPoints |-> hasPoints,
     isQuiz |-> isQuiz, title |-> title, description |-> description,
     hasLink |-> hasLink, throwsAt |-> throwsAt]

\* `Activity #${index}`
FallbackTitle(index) == <<"Activity", " ", "#", ToString(index)>>

\* A plausible slip: the completion check left out of processCard
processCardKeepsCompleted(card, type, index, locator) ==
    IF card.throwsAt = Some("isVisible") THEN None
    ELSE IF ~card.visible THEN None
    ELSE IF card.throwsAt = Some("completed") THEN None
    ELSE IF type = "standard" /\ card.throwsAt = Some("points") THEN None
    ELSE IF type = "standard" /\ ~card.hasPoints THEN None
    ELSE IF type = "standard" /\ card.throwsAt = Some("quiz") THEN None
    ELSE IF type = "standard" /\ card.isQuiz THEN None
    ELSE IF card.throwsAt = Some("title") THEN None
    ELSE IF card.throwsAt = Some("link") THEN None
    ELSE IF ~card.hasLink THEN None
    ELSE Some([index |-> index,
               title |-> Trim(IF card.title # None /\ card.title[1] # <<>>
                              THEN card.title[1] ELSE FallbackTitle(index)),
               isCompleted |-> card.completed,
               locator |-> locator,
               type |-> type,
               description |-> IF card.description = None THEN None
                               ELSE Some(Trim(card.description[1]))])

\* A plausible slip: the description read without its .catch(() => undefined),
\* so that its rejection reaches the catch of processCard
processCardDescriptionThrows(card, type, index, locator) ==
    IF card.throwsAt = Some("isVisible") THEN None
    ELSE IF ~card.visible THEN None
    ELSE IF card.throwsAt = Some("completed") THEN None
    ELSE IF card.completed THEN None
    ELSE IF type = "standard" /\ card.throwsAt = Some("points") THEN None
    ELSE IF type = "standard" /\ ~card.hasPoints THEN None
    ELSE IF type = "standard" /\ card.throwsAt = Some("quiz") THEN None
    ELSE IF type = "standard" /\ card.isQuiz THEN None
    ELSE IF card.throwsAt = Some("title") THEN None
    ELSE IF card.description = None THEN None
    ELSE IF card.throwsAt = Some("link") THEN None
    ELSE IF ~card.hasLink THEN None
    ELSE Some([index |-> index,
               title |-> Trim(IF card.title # None /\ card.title[1] # <<>>
                              THEN card.title[1] ELSE FallbackTitle(index)),
               isCompleted |-> card.completed,
               locator |-> locator,
               type |-> type,
               description |-> Some(Trim(card.description[1]))])

\* processCard(card, type, index): Some(ActivityInfo) or None (null)
processCard(card, type, index, locator) ==
    IF card.throwsAt = Some("isVisible") THEN None
    ELSE IF ~card.visible THEN None
    ELSE IF card.throwsAt = Some("completed") THEN None
    ELSE IF card.completed THEN None
    ELSE IF type = "standard" /\ card.throwsAt = Some("points") THEN None
    ELSE IF type = "standard" /\ ~card.hasPoints THEN None
    ELSE IF type = "standard" /\ card.throwsAt = Some("quiz") THEN None
    ELSE IF type = "standard" /\ card.isQuiz THEN None
    ELSE IF card.throwsAt = Some("title") THEN None
    ELSE IF card.throwsAt = Some("link") THEN None
    ELSE IF ~card.hasLink THEN None
    ELSE Some([index |-> index,
               title |-> Trim(IF card.title # None /\ card.title[1] # <<>>
                              THEN card.title[1] ELSE FallbackTitle(index)),
               isCompleted |-> card.completed,
               locator |-> locator,
               type |-> type,
               description |-> IF card.description = None THEN None
                               ELSE Some(Trim(card.description[1]))])

\* for (let i = 0; i < count; i++) { info = processCard(cards.nth(i), type,
\* activities.length); if (info) activities.push(info) }
\* whether a card is pushed does not depend on the index it is given, so the
\* loop pushes the cards processCard keeps, each with the list's length then
CollectCards(acc, cards, type) ==
    LET kept   == {i \in 1..Len(cards) : processCard(cards[i], type, 0, <<type, i>>) # None}
        nth(j) == CHOOSE i \in kept : Cardinality({k \in kept : k <= i}) = j
    IN  acc \o [j \in 1..Cardinality(kept) |->
                   processCard(cards[nth(j)], type, Len(acc) + j - 1, <<type, nth(j)>>)[1]]

\* ClickHandler.findClickableActivities: the "More activities" cards (by
\* heading, by the older XPath when the heading finds none), then the
\* "Explore on Bing" cards
findClickableActivities(page) ==
    LET moreActivities == IF Len(page.moreByHeading) = 0 THEN page.moreByXPath
                          ELSE page.moreByHeading
        standard == CollectCards(<<>>, moreActivities, "standard")
    IN  CollectCards(standard, page.explore, "explore")

(***************************************************************************)
(* ClickHandler.clickActivity, one activity from call to return.           *)
(*                                                                         *)
(* The controller runs alone on the page, so the handling of one activity  *)
(* is one step.  Its stages are the awaited page operations in program     *)
(* order; env is what the browser does: failAt (the stage that rejects, 0  *)
(* for none), extraTabs (tabs open besides the dashboard's when the tabs   *)
(* are listed), origPos (the dashboard tab's position in that list),       *)
(* targetOnBing (the target tab's URL contains bing.com), pageOnSearch     *)
(* (the dashboard tab's URL contains bing.com/search).                     *)
(***************************************************************************)
PathSteps == 50     \* generateMousePath(..., steps = 50)

Stage(name, op, count) == [name |-> name, op |-> op, count |-> count]

\* Humanizer.clickLocatorHuman / clickHuman: boundingBox, the moves along the
\* path, mouse.down, mouse.up
ClickHumanStages ==
    << Stage("boundingBox", "read", 1),
       Stage("mouse.move", "pointerMove", PathSteps + 1),
       Stage("mouse.down", "pointerDown", 1),
       Stage("mouse.up", "pointerUp", 1) >>

\* Humanizer.clearAndTypeHuman(targetPage, selector, query)
ClearAndTypeStages(query) ==
    ClickHumanStages
    \o << Stage("press Control+A", "key", 1), Stage("press Backspace", "key", 1) >>
    \o (IF query = <<>> THEN <<>> ELSE << Stage("keyboard.type", "key", Len(query)) >>)

\* lines 510-547: the search an explore activity performs
ExploreStages(query, env) ==
    << Stage("targetPage.bringToFront", "tabFocus", 1) >>
    \o (IF env.targetOnBing THEN <<>> ELSE << Stage("targetPage.goto", "navigate", 1) >>)
    \o ClearAndTypeStages(query)
    \o << Stage("press Enter", "key", 1) >>

\* while (pages.length > 1) { p = pages.pop(); if (p && p !== page) await p.close() }
\* pops extraTabs tabs off the end of the list; the dashboard tab is among
\* them unless it is first
TabsClosed(env) == IF env.origPos = 1 THEN env.extraTabs ELSE env.extraTabs - 1

\* lines 549-562: tab cleanup and the way back to the dashboard
CleanupStages(env) ==
    (IF TabsClosed(env) > 0 THEN << Stage("p.close", "tabClose", TabsClosed(env)) >> ELSE <<>>)
    \o << Stage("page.bringToFront", "tabFocus", 1) >>
    \o (IF env.pageOnSearch THEN << Stage("browser.goto", "navigate", 1) >> ELSE <<>>)

\* A plausible slip: the search of an explore activity issued before the
\* click on its card
LiveStagesSearchFirst(activity, env) ==
    << Stage("scrollIntoViewIfNeeded", "scroll", 1) >>
    \o (IF activity.type = "explore"
        THEN (IF getExploreQuery(activity) = <<>> THEN ClickHumanStages
              ELSE ExploreStages(getExploreQuery(activity), env) \o ClickHumanStages
                   \o CleanupStages(env))
        ELSE ClickHumanStages \o CleanupStages(env))

\* the awaited page operations of a live clickActivity, in program order
LiveStages(activity, env) ==
    << Stage("scrollIntoViewIfNeeded", "scroll", 1) >>
    \o ClickHumanStages
    \o (IF activity.type = "explore"
        THEN (IF getExploreQuery(activity) = <<>> THEN <<>>
              ELSE ExploreStages(getExploreQuery(activity), env) \o CleanupStages(env))
        ELSE CleanupStages(env))

\* the operations issued by the stages before the one that rejects
OpsOf(stages, failAt) ==
    LET n    == IF failAt = 0 THEN Len(stages) ELSE failAt - 1
        done == SubSeq(stages, 1, n)
    IN  [i \in 1..n |-> [op |-> done[i].op, count |-> done[i].count]]

\* A plausible slip: the dry-run guard left out of clickActivity
clickActivityNoDryRun(activity, dryRun, env) ==
    LET stages == LiveStages(activity, env)
    IN  [success |-> env.failAt = 0, title |-> activity.title,
         ops |-> OpsOf(stages, env.failAt),
         failedAt |-> IF env.failAt = 0 THEN "" ELSE stages[env.failAt].name,
         escaped |-> FALSE]

\* A plausible slip: the failure of one activity not caught in clickActivity
clickActivityUncaught(activity, dryRun, env) ==
    IF dryRun
    THEN [success |-> TRUE, title |-> activity.title, ops |-> <<>>, failedAt |-> "",
          escaped |-> FALSE]
    ELSE LET stages == LiveStages(activity, env)
         IN  [success |-> env.failAt = 0, title |-> activity.title,
              ops |-> OpsOf(stages, env.failAt),
              failedAt |-> IF env.failAt = 0 THEN "" ELSE stages[env.failAt].name,
              escaped |-> env.failAt # 0]

\* ClickHandler.clickActivity(page, activity): { success, title }, with the
\* page operations it issued; escaped: an error left clickActivity (never)
clickActivity(activity, dryRun, env) ==
    IF dryRun
    THEN [success |-> TRUE, title |-> activity.title, ops |-> <<>>, failedAt |-> "",
          escaped |-> FALSE]
    ELSE LET stages == LiveStages(activity, env)
         IN  [success |-> env.failAt = 0, title |-> activity.title,
              ops |-> OpsOf(stages, env.failAt),
              failedAt |-> IF env.failAt = 0 THEN "" ELSE stages[env.failAt].name,
              escaped |-> FALSE]

(***************************************************************************)
(* ClickHandler.run                                                        *)
(***************************************************************************)
MaxClicksLimit == 10        \* Math.min(10, this.config.maxActionsPerHour)
DefaultMaxActions == 30     \* maxActionsPerHour: config?.maxActionsPerHour ?? 30

\* Bounds of the controller specifications
MaxMixedStd == 2     \* "More activities" cards of a dashboard of mixed cards
MaxMixedExp == 1     \* "Explore on Bing" cards of a dashboard of mixed cards
MaxStd == 11         \* cards in the "More activities" section
MaxExp == 1          \* cards in the "Explore on Bing" section
MaxFlaky == 2        \* the first MaxFlaky items of a run meet any browser (Envs), the
                     \* later ones the ordinary one
MaxExtraTabs == 1    \* tabs open besides the dashboard's
MaxElapsed == 2      \* wall-clock time a run may take, in clock readings

\* the values of maxActionsPerHour explored
ActionCaps == {1, 2, DefaultMaxActions}

DashboardUrl == "https://rewards.bing.com/"

\* the other places the shared page can be pointed at: the blank page of a
\* new tab, the Bing results page an activity links to, a quiz
BlankUrl == "about:blank"
SearchUrl == "https://www.bing.com/search?q="
QuizUrl == "https://www.bing.com/quiz"

\* A plausible slip: the limit of 10 left out
maxClicksUnlimited == cfg.maxActionsPerHour

\* const maxClicks = Math.min(10, this.config.maxActionsPerHour)
maxClicks == Min(MaxClicksLimit, cfg.maxActionsPerHour)

\* A plausible slip: a run that attempted anything reports ok
FinalStatusAlwaysOk(count) == "ok"

\* result.status = clickedCount > 0 ? 'ok' : 'failed'   (completedCount in QuizHandler)
FinalStatus(count) == IF count > 0 THEN "ok" ELSE "failed"

\* A plausible slip: a run with nothing to do reported as failed
NothingFoundAsFailed(res, reason) ==
    [res EXCEPT !.status = "failed", !.meta = [reason |-> reason]]

\* result.status = 'skipped'; result.meta = { reason }
NothingFound(res, reason) ==
    [res EXCEPT !.status = "skipped", !.meta = [reason |-> reason]]

\* what the browser may do while one activity is handled
EnvOf(failAt, extraTabs, origPos, targetOnBing, pageOnSearch) ==
    [failAt |-> failAt, extraTabs |-> extraTabs, origPos |-> origPos,
     targetOnBing |-> targetOnBing, pageOnSearch |-> pageOnSearch]

\* dry-run touches nothing, and a standard activity has no target tab
EnvShapes(activity, dryRun) ==
    IF dryRun THEN {EnvOf(0, 0, 1, TRUE, FALSE)}
    ELSE { EnvOf(0, x[1], x[2], b, s) :
             x \in {y \in (0..MaxExtraTabs) \X (1..(MaxExtraTabs + 1)) : y[2] <= y[1] + 1},
             b \in IF activity.type = "explore" THEN BOOLEAN ELSE {TRUE},
             s \in BOOLEAN }

\* the browser as it ordinarily is: nothing rejects and the card's link opens
\* in one new tab, on Bing, listed after the dashboard's
OrdinaryEnv == EnvOf(0, 1, 1, TRUE, FALSE)

Envs(activity, position, dryRun) ==
    IF dryRun THEN EnvShapes(activity, dryRun)
    ELSE IF position > MaxFlaky THEN {OrdinaryEnv}
    ELSE UNION { { [e EXCEPT !.failAt = f] : f \in 0..Len(LiveStages(activity, e)) } :
                 e \in EnvShapes(activity, dryRun) }

\* where the click on a card leaves the shared page: on a results page when
\* page.url().includes('bing.com/search'), else where it was (the link opened
\* in a new tab)
LandsAt(env, before) == IF env.pageOnSearch THEN SearchUrl ELSE before

\* page.url() when clickActivity returns: untouched in dry-run and when the
\* attempt failed before the click was delivered; the dashboard again when
\* line 560 was reached and its goto resolved; otherwise where the click left it
PageAfter(activity, dryRun, env, before) ==
    IF dryRun THEN before
    ELSE LET stages   == LiveStages(activity, env)
             clicked  == env.failAt = 0 \/ env.failAt > 1 + Len(ClickHumanStages)
             wentBack == /\ env.failAt = 0
                         /\ stages[Len(stages)].name = "browser.goto"
         IN  IF ~clicked THEN before
             ELSE IF wentBack THEN DashboardUrl
             ELSE LandsAt(env, before)

\* the position in stages of the stage of that name, 0 when it is not among them
StageAt(stages, name) ==
    IF \E i \in 1..Len(stages) : stages[i].name = name
    THEN CHOOSE i \in 1..Len(stages) : stages[i].name = name
    ELSE 0

\* the tabs when clickActivity returns: othersOpen, a tab is still open besides
\* the dashboard's; origFocused, the dashboard's tab is in front.  The click,
\* once delivered, has opened env.extraTabs tabs; the loop of lines 550-554
\* closes TabsClosed(env) of them when it is reached and no close() rejects;
\* the dashboard's tab is in front when no other tab is open or line 555 ran.
TabsAfter(activity, dryRun, env) ==
    IF dryRun THEN [othersOpen |-> FALSE, origFocused |-> TRUE]
    ELSE LET stages   == LiveStages(activity, env)
             clicked  == env.failAt = 0 \/ env.failAt > 1 + Len(ClickHumanStages)
             frontAt  == StageAt(stages, "page.bringToFront")
             swept    == frontAt # 0 /\ (env.failAt = 0 \/ env.failAt >= frontAt)
             fronted  == frontAt # 0 /\ (env.failAt = 0 \/ env.failAt > frontAt)
         IN  IF ~clicked THEN [othersOpen |-> FALSE, origFocused |-> TRUE]
             ELSE [othersOpen |-> IF swept THEN env.extraTabs > TabsClosed(env)
                                  ELSE env.extraTabs > 0,
                   origFocused |-> fronted \/ env.extraTabs = 0]

\* the kinds of operation in a sequence of operations
OpKinds(ops) == {ops[i].op : i \in 1..Len(ops)} \ {"read"}

\* finally { result.durationMs = Date.now() - startTime } ; return result
Return(res) ==
    /\ \E d \in {0, MaxElapsed} :
         /\ now' = now + d
         /\ result' = [res EXCEPT !.durationMs = now' - startTime]
    /\ pc' = "done"

\* a thrown value: an Error with its message, or any other value with the
\* text String(e) gives; page operations reject with Errors
ErrorOf(message) == [isError |-> TRUE, message |-> message, text |-> "Error"]

\* e instanceof Error ? e.message : String(e)
ErrorText(e) == IF e.isError THEN e.message ELSE e.text

\* A plausible slip: the catch sets the status and drops the message
CatchWithoutMessage(res, e) ==
    /\ thrown' = Some(e)
    /\ Return([res EXCEPT !.status = "failed"])

\* A plausible slip: the error thrown on by the catch, so that run rejects
CatchRethrown(res, e) ==
    /\ thrown' = Some(e)
    /\ pc' = "rejected"
    /\ UNCHANGED <<result, now>>

\* catch (e) { result.status = 'failed'; result.meta = { error: ... } }
Catch(res, e) ==
    /\ thrown' = Some(e)
    /\ Return([res EXCEPT !.status = "failed", !.meta = [error |-> ErrorText(e)]])

\* await this.browser.goto('https://rewards.bing.com/'); await randomDelay(2000, 4000)
ClickNavigate ==
    /\ pc = "navigate"
    /\ result.type = "click"
    /\ \/ /\ pc' = "discover"
          /\ opsIssued' = opsIssued \cup {"navigate"}
          /\ pageAt' = DashboardUrl
          /\ UNCHANGED <<result, now, thrown>>
       \/ /\ Catch(result, ErrorOf("Network error"))
          /\ UNCHANGED <<opsIssued, pageAt>>
    /\ UNCHANGED <<cfg, dashboard, startTime, lastOps, clickVars, quizVars, cacheVars, metricsVars, toolVars>>

\* const activities = await this.findClickableActivities(page);
\* if (activities.length === 0) { ...; return result }
ClickDiscover ==
    /\ pc = "discover"
    /\ result.type = "click"
    /\ \/ /\ activities' = findClickableActivities(dashboard)
          /\ IF Len(activities') = 0
             THEN /\ Return(NothingFound(result, "No incomplete activities"))
                  /\ UNCHANGED thrown
             ELSE /\ pc' = "loop"
                  /\ UNCHANGED <<result, now, thrown>>
       \/ /\ Catch(result, ErrorOf("locator.count: Target closed"))
          /\ UNCHANGED activities
    /\ UNCHANGED <<cfg, dashboard, startTime, opsIssued, lastOps, pageAt, idx, clickedCount,
                   outcomes, quizVars, cacheVars, metricsVars, toolVars>>

\* one iteration of for (const activity of activities) that passes the
\* rate-limit check: the attempt, the bookkeeping, the delay between clicks
ClickIterate ==
    /\ pc = "loop"
    /\ result.type = "click"
    /\ idx <= Len(activities)
    /\ clickedCount < maxClicks
    /\ \E attempt \in {[clickResult |-> clickActivity(activities[idx], cfg.dryRun, env),
                          url |-> PageAfter(activities[idx], cfg.dryRun, env, pageAt),
                          tabs |-> TabsAfter(activities[idx], cfg.dryRun, env)] :
                             env \in Envs(activities[idx], idx, cfg.dryRun)} :
         LET clickResult == attempt.clickResult
             attempted == [result EXCEPT !.attempts = @ + 1]
         IN  /\ lastOps' = [ops |-> clickResult.ops, failedAt |-> clickResult.failedAt,
                             othersOpen |-> attempt.tabs.othersOpen,
                             origFocused |-> attempt.tabs.origFocused]
             /\ pageAt' = attempt.url
             /\ opsIssued' = opsIssued \cup OpKinds(clickResult.ops)
             /\ outcomes' = Append(outcomes, [index |-> idx, title |-> clickResult.title,
                                              success |-> clickResult.success])
             /\ IF clickResult.escaped
                THEN /\ Catch(attempted, ErrorOf("Element not visible"))
                     /\ UNCHANGED <<idx, clickedCount>>
                ELSE /\ idx' = idx + 1
                     /\ clickedCount' = IF clickResult.success THEN clickedCount + 1
                                        ELSE clickedCount
                     /\ result' = IF clickResult.success
                                  THEN [attempted EXCEPT !.meta.clickedActivities =
                                                            Append(@, clickResult.title)]
                                  ELSE attempted
                     /\ UNCHANGED <<pc, now, thrown>>
    /\ UNCHANGED <<cfg, dashboard, startTime, activities, quizVars, cacheVars, metricsVars, toolVars>>

\* the loop ends (list exhausted, or break on the rate limit):
\* result.status = clickedCount > 0 ? 'ok' : 'failed'; result.meta.totalClicked = clickedCount
ClickFinish ==
    /\ pc = "loop"
    /\ result.type = "click"
    /\ idx > Len(activities) \/ clickedCount >= maxClicks
    /\ Return([result EXCEPT !.status = FinalStatus(clickedCount),
                             !.meta = [clickedActivities |-> @.clickedActivities,
                                       totalClicked |-> clickedCount]])
    /\ UNCHANGED <<cfg, dashboard, startTime, thrown, opsIssued, lastOps, pageAt, clickVars,
                   quizVars, cacheVars, metricsVars, toolVars>>

(***************************************************************************)
(* QuizHandler.  dashboard.quiz holds, per selector of quizSelectors, the  *)
(* cards it matches; a card is [id, completed, text], text None when       *)
(* textContent() is null.  Inside handleQuiz the page is what the browser  *)
(* shows at each read: complete or not, some number of options, or a       *)
(* rejected read.  randomDelay(min, max) takes min or max.                 *)
(***************************************************************************)
MaxDuration == 60000    \* const maxDuration = 60000
MaxQuizzes == 2         \* open quiz cards on the dashboard
MaxOptions == 2         \* answer options a quiz page shows

\* no quiz handled yet, or one being handled
NoQuiz == [how |-> "", elapsed |-> 0]

\* const text = await element.textContent() || ''
TextOf(element) == IF element.text = None THEN "" ELSE element.text[1]

\* for (let i = 0; i < count; i++) over the elements of one selector
RECURSIVE QuizElements(_, _, _, _)
QuizElements(acc, elements, sel, i) ==
    IF i > Len(elements) THEN acc
    ELSE LET element == elements[i]
             text == TextOf(element)
         IN  IF ~element.completed /\ text \notin acc.processedIndices
             THEN QuizElements([quizzes |-> Append(acc.quizzes,
                                                  [locator |-> <<sel, i>>, id |-> element.id,
                                                   text |-> text]),
                                processedIndices |-> acc.processedIndices \cup {text}],
                               elements, sel, i + 1)
             ELSE QuizElements(acc, elements, sel, i + 1)

\* for (const selector of quizSelectors)
RECURSIVE QuizSelectors(_, _, _)
QuizSelectors(acc, bySelector, sel) ==
    IF sel > Len(bySelector) THEN acc
    ELSE QuizSelectors(QuizElements(acc, bySelector[sel], sel, 1), bySelector, sel + 1)

\* QuizHandler.findQuizActivities
findQuizActivities(page) ==
    QuizSelectors([quizzes |-> <<>>, processedIndices |-> {}], page.quiz, 1).quizzes

\* await this.browser.goto('https://rewards.bing.com/'); await randomDelay(2000, 4000)
QuizNavigate ==
    /\ pc = "navigate"
    /\ result.type = "quiz"
    /\ \/ /\ pc' = "discover"
          /\ opsIssued' = opsIssued \cup {"navigate"}
          /\ pageAt' = DashboardUrl
          /\ UNCHANGED <<result, now, thrown>>
       \/ /\ Catch(result, ErrorOf("Network error"))
          /\ UNCHANGED <<opsIssued, pageAt>>
    /\ UNCHANGED <<cfg, dashboard, startTime, lastOps, clickVars, quizVars, cacheVars, metricsVars, toolVars>>

\* const quizzes = await this.findQuizActivities(page);
\* if (quizzes.length === 0) { ...; return result }
QuizDiscover ==
    /\ pc = "discover"
    /\ result.type = "quiz"
    /\ \/ /\ quizzes' = findQuizActivities(dashboard)
          /\ IF Len(quizzes') = 0
             THEN /\ Return(NothingFound(result, "No quiz activities found"))
                  /\ UNCHANGED thrown
             ELSE /\ pc' = "loop"
                  /\ UNCHANGED <<result, now, thrown>>
       \/ /\ Catch(result, ErrorOf("locator.count: Target closed"))
          /\ UNCHANGED quizzes
    /\ UNCHANGED <<cfg, dashboard, startTime, opsIssued, lastOps, pageAt, clickVars,
                   quizIdx, completedCount, hqElapsed, options, optIdx, lastQuiz,
                   cacheVars, metricsVars, toolVars>>

\* A plausible slip: a completed quiz not counted
EndQuizUncounted(completed, ops, how, elapsed) ==
    /\ completedCount' = completedCount
    /\ outcomes' = Append(outcomes, [index |-> quizIdx, title |-> quizzes[quizIdx].text,
                                     success |-> completed])
    /\ quizIdx' = quizIdx + 1
    /\ opsIssued' = opsIssued \cup ops
    /\ lastQuiz' = [how |-> how, elapsed |-> elapsed]
    /\ pc' = "loop"
    /\ hqElapsed' = 0
    /\ options' = 0
    /\ optIdx' = 1

\* the body of the for loop is left for the next quiz: handleQuiz returned
\* { completed } and the dashboard was loaded again (ops), or an error was
\* caught by the catch of the body (completed FALSE, no ops).  how: what
\* ended it ("openFailed", "firstCheck", "check", "afterClick", "dryRun",
\* "timeout", "error"); elapsed: Date.now() - startTime of handleQuiz then
EndQuiz(completed, ops, how, elapsed) ==
    /\ completedCount' = IF completed THEN completedCount + 1 ELSE completedCount
    /\ lastQuiz' = [how |-> how, elapsed |-> elapsed]
    /\ outcomes' = Append(outcomes, [index |-> quizIdx, title |-> quizzes[quizIdx].text,
                                     success |-> completed])
    /\ quizIdx' = quizIdx + 1
    /\ opsIssued' = opsIssued \cup ops
    /\ pc' = "loop"
    /\ hqElapsed' = 0
    /\ options' = 0
    /\ optIdx' = 1

\* if (!this.config.dryRun) { await this.browser.goto(...); await randomDelay(1500, 3000) }
\* a goto that rejects is caught by the catch of the body
BackToDashboard == IF cfg.dryRun THEN {} ELSE {"navigate"}

\* page.url() after the goto of line 84: the dashboard, or where the page was
\* when the goto is skipped (dry-run) or rejects
PageBack(dryRun, before) == IF dryRun THEN {before} ELSE {DashboardUrl, before}

\* page.url() after the click on the card: the quiz opens in the shared page
PageOpened(dryRun, before) == IF dryRun THEN before ELSE QuizUrl

\* A plausible slip: the card clicked in dry-run as well
OpenCardAlways(dryRun) == {"click"}

\* if (!this.config.dryRun) { await quizLocator.click(); await randomDelay(2000, 4000) }
OpenCard(dryRun) == IF dryRun THEN {} ELSE {"click"}

\* A plausible slip: a quiz that ran out of time reported completed
TimedOutCompleted == [completed |-> TRUE]

\* return { completed: false } after the while loop
TimedOut == [completed |-> FALSE]

\* one quiz passes the rate-limit check: result.attempts++, then the card is
\* clicked (not in dry-run) and handleQuiz is entered
QuizOpen ==
    /\ pc = "loop"
    /\ result.type = "quiz"
    /\ quizIdx <= Len(quizzes)
    /\ completedCount < cfg.maxActionsPerHour
    /\ result' = [result EXCEPT !.attempts = @ + 1]
    /\ \/ /\ pc' = "handle"
          /\ opsIssued' = opsIssued \cup OpenCard(cfg.dryRun)
          /\ pageAt' = PageOpened(cfg.dryRun, pageAt)
          /\ hqElapsed' = 0
          /\ lastQuiz' = NoQuiz
          /\ UNCHANGED <<outcomes, quizIdx, completedCount, options, optIdx>>
       \/ /\ ~cfg.dryRun
          /\ EndQuiz(FALSE, {}, "openFailed", 0)
          /\ UNCHANGED pageAt
    /\ UNCHANGED <<cfg, dashboard, startTime, now, thrown, lastOps, activities, idx,
                   clickedCount, quizzes, cacheVars, metricsVars, toolVars>>

\* handleQuiz, the head of one iteration of while (Date.now() - startTime <
\* maxDuration): isQuizComplete, findOptions, the wait when there are none
HandleQuizScan ==
    /\ pc = "handle"
    /\ IF hqElapsed >= MaxDuration
       THEN /\ EndQuiz(TimedOut.completed, BackToDashboard, "timeout", hqElapsed)
            /\ pageAt' \in PageBack(cfg.dryRun, pageAt)
       ELSE \/ /\ EndQuiz(TRUE, BackToDashboard,
                          IF hqElapsed = 0 THEN "firstCheck" ELSE "check", hqElapsed)
               /\ pageAt' \in PageBack(cfg.dryRun, pageAt)
            \/ /\ EndQuiz(FALSE, {}, "error", hqElapsed)
               /\ UNCHANGED pageAt
            \/ \E d \in {1000, 2000} :
                 /\ hqElapsed' = hqElapsed + d
                 /\ UNCHANGED <<pc, outcomes, quizIdx, completedCount, opsIssued, options,
                                optIdx, lastQuiz, pageAt>>
            \/ \E n \in 1..MaxOptions :
                 /\ options' = n
                 /\ optIdx' = 1
                 /\ pc' = "option"
                 /\ UNCHANGED <<outcomes, quizIdx, completedCount, opsIssued, hqElapsed,
                                lastQuiz, pageAt>>
    /\ UNCHANGED <<cfg, dashboard, startTime, now, thrown, result, lastOps, activities, idx,
                   clickedCount, quizzes, cacheVars, metricsVars, toolVars>>

\* A plausible slip: the wait before the next scan left out
NextScanNoWait(ops) ==
    /\ hqElapsed' = hqElapsed
    /\ pc' = "handle"
    /\ opsIssued' = opsIssued \cup ops
    /\ UNCHANGED <<outcomes, quizIdx, completedCount, options, optIdx, lastQuiz, pageAt>>

\* the loop over options is left (exhausted, or break): await randomDelay(2000, 3000)
NextScan(ops) ==
    /\ \E d \in {2000, 3000} : hqElapsed' = hqElapsed + d
    /\ pc' = "handle"
    /\ opsIssued' = opsIssued \cup ops
    /\ UNCHANGED <<outcomes, quizIdx, completedCount, options, optIdx, lastQuiz, pageAt>>

\* A plausible slip: the error of the try block thrown on, out of handleQuiz
OptionRethrown(ops, waited) ==
    /\ EndQuiz(FALSE, ops, "error", hqElapsed + waited)
    /\ UNCHANGED pageAt

\* catch { break }: an error inside the try of the for loop (option.click(),
\* or the isQuizComplete after it) leaves the for loop with the options that
\* remain unvisited, and the wait before the next scan follows.  ops: what
\* the try had issued; waited: the delay it had taken
OptionCaught(ops, waited) ==
    /\ \E w \in {2000, 3000} : hqElapsed' = hqElapsed + waited + w
    /\ pc' = "handle"
    /\ opsIssued' = opsIssued \cup ops
    /\ UNCHANGED <<outcomes, quizIdx, completedCount, options, optIdx, lastQuiz, pageAt>>

\* handleQuiz, one iteration of for (const option of options)
HandleQuizOption ==
    /\ pc = "option"
    /\ IF optIdx > options THEN NextScan({})
       ELSE IF cfg.dryRun
            THEN /\ EndQuiz(TRUE, BackToDashboard, "dryRun", hqElapsed)
                 /\ pageAt' \in PageBack(cfg.dryRun, pageAt)
       ELSE \/ OptionCaught({}, 0)
            \/ \E d \in {1000, 2000} :
                 \/ /\ EndQuiz(TRUE, {"click"} \cup BackToDashboard, "afterClick",
                               hqElapsed + d)
                    /\ pageAt' \in PageBack(cfg.dryRun, pageAt)
                 \/ /\ hqElapsed' = hqElapsed + d
                    /\ optIdx' = optIdx + 1
                    /\ opsIssued' = opsIssued \cup {"click"}
                    /\ UNCHANGED <<pc, outcomes, quizIdx, completedCount, options, lastQuiz,
                                   pageAt>>
                 \/ OptionCaught({"click"}, d)
    /\ UNCHANGED <<cfg, dashboard, startTime, now, thrown, result, lastOps, activities, idx,
                   clickedCount, quizzes, cacheVars, metricsVars, toolVars>>

\* the loop ends (list exhausted, or break on the rate limit):
\* result.meta = { quizzesCompleted }; result.status = completedCount > 0 ? 'ok' : 'failed'
QuizFinish ==
    /\ pc = "loop"
    /\ result.type = "quiz"
    /\ quizIdx > Len(quizzes) \/ completedCount >= cfg.maxActionsPerHour
    /\ Return([result EXCEPT !.status = FinalStatus(completedCount),
                             !.meta = [quizzesCompleted |-> completedCount]])
    /\ UNCHANGED <<cfg, dashboard, startTime, thrown, opsIssued, lastOps, pageAt, clickVars,
                   quizVars, cacheVars, metricsVars, toolVars>>

(***************************************************************************)
(* Humanizer.  One call, from entry to return or throw, one awaited page   *)
(* operation per step.  box: element.boundingBox() gives a box (else       *)
(* null); events: the pointer and keyboard events issued so far, in order; *)
(* thrown: the message of the Error the call rejected with, if any.  Any   *)
(* awaited operation of the page may reject.                               *)
(***************************************************************************)
MaxText == 2        \* characters of the text typed

ClickMethods == {"clickHuman", "clickLocatorHuman"}
TypeMethods == {"typeHuman", "clearAndTypeHuman"}
TypedChars == {"h", "i"}

\* throw new Error(`Element ${selector} not visible`) / new Error('Element not visible')
NotVisible(method) ==
    IF method = "clickLocatorHuman" THEN "Element not visible"
    ELSE "Element #input not visible"

PointerEvent(kind) == [kind |-> kind, key |-> ""]
KeyEvent(key) == [kind |-> "key", key |-> key]

\* the call rejects with the error of the page operation that failed
HumanizerRejects(message) ==
    humanizer' = [humanizer EXCEPT !.pc = "done", !.thrown = Some(message)]

\* the event is issued and the call goes on at pc, or the operation rejects
HumanizerIssues(event, pc2, i2) ==
    \/ humanizer' = [humanizer EXCEPT !.events = Append(@, event), !.pc = pc2, !.i = i2]
    \/ HumanizerRejects("Target closed")

\* A plausible slip: the null check on the box left out
BoundingBoxUnchecked ==
    /\ humanizer.pc = "boundingBox"
    /\ \/ humanizer' = [humanizer EXCEPT !.pc = "move", !.i = 0]
       \/ HumanizerRejects("Target closed")
    /\ UNCHANGED <<cacheVars, metricsVars, controllerVars, clickPoint, explore, mousePath, storage, adapter,
                   mainProc>>

\* const box = await element.boundingBox(); if (!box) throw new Error(...)
BoundingBox ==
    /\ humanizer.pc = "boundingBox"
    /\ \/ IF humanizer.box
          THEN humanizer' = [humanizer EXCEPT !.pc = "move", !.i = 0]
          ELSE HumanizerRejects(NotVisible(humanizer.method))
       \/ HumanizerRejects("Target closed")
    /\ UNCHANGED <<cacheVars, metricsVars, controllerVars, clickPoint, explore, mousePath, storage, adapter,
                   mainProc>>

\* page.mouse.move(point.x, point.y) for the point of the path at index i
\* (0 the start, PathSteps the end)
MoveEvent(i) == [kind |-> "pointerMove", key |-> "", point |-> i]

\* A plausible slip: the loop over the path stops one point short
MouseMoveSkipsLast ==
    /\ humanizer.pc = "move"
    /\ HumanizerIssues(MoveEvent(humanizer.i),
                       IF humanizer.i < PathSteps - 1 THEN "move" ELSE "down",
                       humanizer.i + 1)
    /\ UNCHANGED <<cacheVars, metricsVars, controllerVars, clickPoint, explore, mousePath, storage, adapter,
                   mainProc>>

\* for (const point of path) { await page.mouse.move(point.x, point.y); ... }
\* path has steps + 1 points
MouseMove ==
    /\ humanizer.pc = "move"
    /\ HumanizerIssues(MoveEvent(humanizer.i),
                       IF humanizer.i < PathSteps THEN "move" ELSE "down", humanizer.i + 1)
    /\ UNCHANGED <<cacheVars, metricsVars, controllerVars, clickPoint, explore, mousePath, storage, adapter,
                   mainProc>>

\* await page.mouse.down()
MouseDown ==
    /\ humanizer.pc = "down"
    /\ HumanizerIssues(PointerEvent("pointerDown"), "up", 0)
    /\ UNCHANGED <<cacheVars, metricsVars, controllerVars, clickPoint, explore, mousePath, storage, adapter,
                   mainProc>>

\* await page.mouse.up(); clickHuman returns, to its caller when the method
\* is typeHuman or clearAndTypeHuman
MouseUp ==
    /\ humanizer.pc = "up"
    /\ HumanizerIssues(PointerEvent("pointerUp"),
                       IF humanizer.method \in ClickMethods THEN "done"
                       ELSE IF humanizer.method = "typeHuman" THEN "type"
                       ELSE "clear", 1)
    /\ UNCHANGED <<cacheVars, metricsVars, controllerVars, clickPoint, explore, mousePath, storage, adapter,
                   mainProc>>

\* await page.keyboard.press('Control+A'); await page.keyboard.press('Backspace')
ClearPress ==
    /\ humanizer.pc = "clear"
    /\ IF humanizer.i = 1
       THEN HumanizerIssues(KeyEvent("Control+A"), "clear", 2)
       ELSE HumanizerIssues(KeyEvent("Backspace"), "type", 1)
    /\ UNCHANGED <<cacheVars, metricsVars, controllerVars, clickPoint, explore, mousePath, storage, adapter,
                   mainProc>>

\* A plausible slip: the whole text typed for every character
TypeCharWhole ==
    /\ humanizer.pc = "type"
    /\ IF humanizer.i <= Len(humanizer.text)
       THEN \/ humanizer' = [humanizer EXCEPT
                                !.events = @ \o [k \in 1..Len(humanizer.text) |->
                                                   KeyEvent(humanizer.text[k])],
                                !.i = @ + 1]
            \/ HumanizerRejects("Target closed")
       ELSE humanizer' = [humanizer EXCEPT !.pc = "done"]
    /\ UNCHANGED <<cacheVars, metricsVars, controllerVars, clickPoint, explore, mousePath, storage, adapter,
                   mainProc>>

\* for (const char of text) { await page.keyboard.type(char); ... }
TypeChar ==
    /\ humanizer.pc = "type"
    /\ IF humanizer.i <= Len(humanizer.text)
       THEN HumanizerIssues(KeyEvent(humanizer.text[humanizer.i]), "type", humanizer.i + 1)
       ELSE humanizer' = [humanizer EXCEPT !.pc = "done"]
    /\ UNCHANGED <<cacheVars, metricsVars, controllerVars, clickPoint, explore, mousePath, storage, adapter,
                   mainProc>>

(***************************************************************************)
(* generateMousePath.  Numbers are exact fractions [n, d]; d = 0 is NaN    *)
(* (0 / 0).  With t = i / steps each coordinate of point i is              *)
(*   ((steps-i)^3 a + 3 (steps-i)^2 i c1 + 3 (steps-i) i^2 c2 + i^3 b)     *)
(*   / steps^3,                                                            *)
(* and the control points, in tenths, are 10 a + 3 (b - a) + 10 j1 and     *)
(* 10 a + 7 (b - a) + 10 j2, where j = (Math.random() - 0.5) * 50.  The    *)
(* doubles of the code agree with the fractions at t = 0 and t = 1, where  *)
(* every product is exact.                                                 *)
(***************************************************************************)
MaxPathSteps == 3       \* the largest value of steps explored

Coords == {0, 50, -8}
Jitters == {-25, 24}
StepValues == 0..MaxPathSteps

Frac(n, d) == [n |-> n, d |-> d]
Cube(k) == k * k * k

\* one coordinate of the point at i: the cubic Bezier formula of lines 33-42
Bezier(a, b, j1, j2, i, steps) ==
    LET c1 == 10 * a + 3 * (b - a) + 10 * j1
        c2 == 10 * a + 7 * (b - a) + 10 * j2
        r  == steps - i
    IN  Frac(Cube(r) * 10 * a + 3 * r * r * i * c1 + 3 * r * i * i * c2 + Cube(i) * 10 * b,
             10 * Cube(steps))

\* A plausible slip: the loop stops before i = steps
generateMousePathExclusive(startX, startY, endX, endY, steps, jitter) ==
    [k \in 1..steps |->
        [x |-> Bezier(startX, endX, jitter.c1x, jitter.c2x, k - 1, steps),
         y |-> Bezier(startY, endY, jitter.c1y, jitter.c2y, k - 1, steps)]]

\* generateMousePath(startX, startY, endX, endY, steps): for (let i = 0; i <=
\* steps; i++) path.push({ x, y })
generateMousePath(startX, startY, endX, endY, steps, jitter) ==
    [k \in 1..(steps + 1) |->
        [x |-> Bezier(startX, endX, jitter.c1x, jitter.c2x, k - 1, steps),
         y |-> Bezier(startY, endY, jitter.c1y, jitter.c2y, k - 1, steps)]]

\* the call returns its path
GenerateMousePathAction ==
    /\ mousePath.pc = "call"
    /\ mousePath' = [mousePath EXCEPT
                       !.pc = "done",
                       !.path = generateMousePath(mousePath.args.startX,
                                                  mousePath.args.startY,
                                                  mousePath.args.endX,
                                                  mousePath.args.endY,
                                                  mousePath.args.steps,
                                                  mousePath.args.jitter)]
    /\ UNCHANGED <<cacheVars, metricsVars, controllerVars, clickPoint, explore, humanizer, storage, adapter,
                   mainProc>>

(***************************************************************************)
(* The search query of an explore card.  The card's title and description  *)
(* are given by their parts, in order: lead (whitespace), phrase, sep (what *)
(* follows the phrase), rest, trail (whitespace); the text of the element  *)
(* is their concatenation.  A word token directly after another continues  *)
(* the same word.  explore: [title, description, pc, activity, query];     *)
(* title and description are None when textContent() is null (for the      *)
(* description also when the read rejects).                                *)
(***************************************************************************)
Leads == {<<>>, <<" ">>}
FullPhrases == {<<"Search", " ", "on", " ", "Bing", " ", "for">>,
                <<"search", " ", " ", "On", " ", "bing", " ", "To">>}
Phrases == {<<>>, <<"Search", " ", "on", " ", "Bing">>} \cup FullPhrases
Seps == {<<>>, <<" ">>, <<":">>, <<" ", "-", " ">>, <<"en-dash", " ">>, <<":", ":">>}
Rests == {<<>>, <<"pizza">>, <<"best", " ", "pizza">>}
Trails == {<<>>, <<" ">>}

Parts(lead, phrase, sep, rest, trail) ==
    [lead |-> lead, phrase |-> phrase, sep |-> sep, rest |-> rest, trail |-> trail]

\* textContent() of an element with these parts
PartsText(p) == p.lead \o p.phrase \o p.sep \o p.rest \o p.trail

Descriptions ==
    {None} \cup {Some(Parts(l, ph, s, r, t)) :
                    l \in Leads, ph \in Phrases, s \in Seps, r \in Rests, t \in Trails}
ExploreTitles ==
    {None} \cup {Some(Parts(l, ph, <<" ">>, r, <<>>)) :
                    l \in Leads, ph \in {<<>>, <<"Search", " ", "on", " ", "Bing", " ", "for">>},
                    r \in Rests}

\* the explore card as processCard reads it
ExploreCard(title, description) ==
    CardOf(TRUE, FALSE, TRUE, FALSE,
           IF title = None THEN None ELSE Some(PartsText(title[1])),
           IF description = None THEN None ELSE Some(PartsText(description[1])),
           TRUE, None)

\* processCard keeps the card; clickActivity: const query = this.getExploreQuery(activity)
ExploreQuery ==
    /\ explore.pc = "call"
    /\ LET activity == processCard(ExploreCard(explore.title, explore.description),
                                   "explore", 0, <<"explore", 1>>)[1]
       IN  explore' = [explore EXCEPT
                         !.pc = "done",
                         !.activity = [title |-> activity.title,
                                       description |-> activity.description],
                         !.query = getExploreQuery(activity)]
    /\ UNCHANGED <<cacheVars, metricsVars, controllerVars, clickPoint, humanizer, mousePath,
                   storage, adapter, mainProc>>

ExploreCall(title, description) ==
    [title |-> title, description |-> description, pc |-> "call",
     activity |-> [title |-> <<>>, description |-> None], query |-> <<>>]

ExploreIdle == explore = [ExploreCall(None, None) EXCEPT !.pc = "idle"]

(***************************************************************************)
(* The click point of clickHuman / clickLocatorHuman.  box is the bounding *)
(* box; Math.random() takes the values k / MaxDraws, k in 0..MaxDraws - 1  *)
(* (0 included, 1 never).  With r = k / MaxDraws,                          *)
(*   target = box.x + box.width / 2 + (r - 0.5) * (box.width * 0.8)        *)
(*          = (20 R x + 10 R w + (2 k - R) * 8 w) / (20 R),   R = MaxDraws *)
(* kept as an exact fraction.  clickPoint: [box, kx, ky, pc, target].      *)
(***************************************************************************)
MaxDraws == 4       \* values Math.random() takes: k / MaxDraws

BoxXs == {0, 100}
BoxYs == {100}
BoxWidths == {1, 50}
BoxHeights == {30}

\* one coordinate of the target point: origin and size of the box on that
\* axis, k the draw
TargetCoord(origin, size, k) ==
    Frac(20 * MaxDraws * origin + 10 * MaxDraws * size + (2 * k - MaxDraws) * 8 * size,
         20 * MaxDraws)

\* A plausible slip: the offset spread over the whole width / height
TargetPointFullSize(box, kx, ky) ==
    [x |-> Frac(20 * MaxDraws * box.x + 10 * MaxDraws * box.width
                   + (2 * kx - MaxDraws) * 10 * box.width, 20 * MaxDraws),
     y |-> Frac(20 * MaxDraws * box.y + 10 * MaxDraws * box.height
                   + (2 * ky - MaxDraws) * 10 * box.height, 20 * MaxDraws)]

\* const targetX = box.x + box.width / 2 + (Math.random() - 0.5) * (box.width * 0.8);
\* const targetY = box.y + box.height / 2 + (Math.random() - 0.5) * (box.height * 0.8)
TargetPoint(box, kx, ky) ==
    [x |-> TargetCoord(box.x, box.width, kx),
     y |-> TargetCoord(box.y, box.height, ky)]

\* the target point is computed from the box and the two draws
ChooseTarget ==
    /\ clickPoint.pc = "call"
    /\ clickPoint' = [clickPoint EXCEPT
                        !.pc = "done",
                        !.target = TargetPoint(clickPoint.box, clickPoint.kx, clickPoint.ky)]
    /\ UNCHANGED <<cacheVars, metricsVars, controllerVars, explore, humanizer, mousePath,
                   storage, adapter, mainProc>>

ClickPointCall(box, kx, ky) ==
    [box |-> box, kx |-> kx, ky |-> ky, pc |-> "call",
     target |-> [x |-> Frac(0, 1), y |-> Frac(0, 1)]]

ClickPointIdle ==
    clickPoint = [ClickPointCall([x |-> 0, y |-> 0, width |-> 0, height |-> 0], 0, 0)
                     EXCEPT !.pc = "idle"]

(***************************************************************************)
(* Storage<T>, step by step.  The file system holds the target file and    *)
(* the temp file next to it; a file is absent, a whole document or the     *)
(* leading part of one.  A value in memory is [doc, undefinedKeys]: the     *)
(* document it spells, and whether it has properties whose value is        *)
(* undefined (QARecord.evidence, RunMetric.meta when not given).  storage: *)
(* data (this.data), file (the target), temp (filePath + ".tmp"), pc       *)
(* (where save is: "idle", "mkdir", "write", "rename"), alive (the process *)
(* runs), old (history: the target when the save under way began), saves   *)
(* (number of saves begun), arg (history: the value the last set / update  *)
(* assigned), outcome (history: how the last save of this instance went:   *)
(* "none", "ok", "caught", "escaped").  A file system call may throw; save *)
(* catches it.  The process may die between any two calls, and within      *)
(* writeFileSync.                                                          *)
(***************************************************************************)
MaxDocs == 2        \* distinct documents
MaxSaves == 2       \* calls of set / update

Docs == 1..MaxDocs
DefaultDoc == 0     \* the document of defaultData

\* the values set / update may assign
Values == [doc : Docs, undefinedKeys : BOOLEAN]

\* defaultData: {} for the cache, { runs: [], dailyPoints: [] } for the metrics
DefaultData == [doc |-> DefaultDoc, undefinedKeys |-> FALSE]

\* JSON.stringify(this.data, null, 2): properties whose value is undefined
\* are left out of the text
Written(data) == data.doc

\* JSON.parse(content): every property of the value comes from the text
Parsed(content) == [doc |-> content, undefinedKeys |-> FALSE]

\* expect(a).toEqual(b): equal but for properties whose value is undefined
ToEqual(a, b) == a.doc = b.doc

Absent == [exists |-> FALSE, doc |-> DefaultDoc, whole |-> TRUE]
Whole(doc) == [exists |-> TRUE, doc |-> doc, whole |-> TRUE]
PartOf(doc) == [exists |-> TRUE, doc |-> doc, whole |-> FALSE]

\* what writeFileSync leaves when it does not complete: the file as it was (not
\* opened) or opened, truncated and written in part
Unfinished(before, doc) == {before, PartOf(doc)}

\* Storage.load: the parsed content, defaultData when there is no file or
\* JSON.parse throws
load(file) == IF file.exists /\ file.whole THEN Parsed(file.doc) ELSE DefaultData

\* set(data) / update(updater): this.data is assigned, then save() begins
StorageSet ==
    /\ storage.alive
    /\ storage.pc = "idle"
    /\ storage.saves < MaxSaves
    /\ \E data \in Values :
          storage' = [storage EXCEPT !.data = data, !.pc = "mkdir", !.old = storage.file,
                                     !.saves = @ + 1, !.arg = data, !.outcome = "none"]
    /\ UNCHANGED <<cacheVars, metricsVars, controllerVars, clickPoint, explore, humanizer, mousePath,
                   adapter, mainProc>>

\* A plausible slip: mkdirSync outside the try of save
SaveMkdirUncaught ==
    /\ storage.alive
    /\ storage.pc = "mkdir"
    /\ \/ storage' = [storage EXCEPT !.pc = "write"]
       \/ storage' = [storage EXCEPT !.pc = "idle", !.outcome = "escaped"]
    /\ UNCHANGED <<cacheVars, metricsVars, controllerVars, clickPoint, explore, humanizer, mousePath,
                   adapter, mainProc>>

\* existsSync(dir) / mkdirSync(dir, { recursive: true })
SaveMkdir ==
    /\ storage.alive
    /\ storage.pc = "mkdir"
    /\ \/ storage' = [storage EXCEPT !.pc = "write"]
       \/ storage' = [storage EXCEPT !.pc = "idle", !.outcome = "caught"]
    /\ UNCHANGED <<cacheVars, metricsVars, controllerVars, clickPoint, explore, humanizer, mousePath,
                   adapter, mainProc>>

\* A plausible slip: the document written over the target itself
SaveWriteTarget ==
    /\ storage.alive
    /\ storage.pc = "write"
    /\ \/ storage' = [storage EXCEPT !.file = Whole(Written(storage.data)), !.pc = "rename"]
       \/ \E left \in Unfinished(storage.file, Written(storage.data)) :
             storage' = [storage EXCEPT !.file = left, !.pc = "idle", !.outcome = "caught"]
    /\ UNCHANGED <<cacheVars, metricsVars, controllerVars, clickPoint, explore, humanizer, mousePath,
                   adapter, mainProc>>

\* writeFileSync(tempPath, JSON.stringify(this.data, null, 2), 'utf-8')
SaveWriteTemp ==
    /\ storage.alive
    /\ storage.pc = "write"
    /\ \/ storage' = [storage EXCEPT !.temp = Whole(Written(storage.data)), !.pc = "rename"]
       \/ \E left \in Unfinished(storage.temp, Written(storage.data)) :
             storage' = [storage EXCEPT !.temp = left, !.pc = "idle", !.outcome = "caught"]
    /\ UNCHANGED <<cacheVars, metricsVars, controllerVars, clickPoint, explore, humanizer, mousePath,
                   adapter, mainProc>>

\* A plausible slip: save returning before the rename
SaveRenameSkipped ==
    /\ storage.alive
    /\ storage.pc = "rename"
    /\ storage' = [storage EXCEPT !.pc = "idle", !.outcome = "ok"]
    /\ UNCHANGED <<cacheVars, metricsVars, controllerVars, clickPoint, explore, humanizer, mousePath,
                   adapter, mainProc>>

\* renameSync(tempPath, this.filePath): the target is replaced in one step, or
\* the call throws and nothing moved
SaveRename ==
    /\ storage.alive
    /\ storage.pc = "rename"
    /\ \/ /\ storage.temp.exists
          /\ storage' = [storage EXCEPT !.file = storage.temp, !.temp = Absent,
                                        !.pc = "idle", !.outcome = "ok"]
       \/ storage' = [storage EXCEPT !.pc = "idle", !.outcome = "caught"]
    /\ UNCHANGED <<cacheVars, metricsVars, controllerVars, clickPoint, explore, humanizer, mousePath,
                   adapter, mainProc>>

\* the process dies: before the next file system call of save, or inside
\* writeFileSync
StorageCrash ==
    /\ storage.alive
    /\ storage.pc # "idle"
    /\ \/ storage' = [storage EXCEPT !.alive = FALSE]
       \/ /\ storage.pc = "write"
          /\ storage' = [storage EXCEPT !.alive = FALSE,
                                        !.temp = PartOf(Written(storage.data))]
    /\ UNCHANGED <<cacheVars, metricsVars, controllerVars, clickPoint, explore, humanizer, mousePath,
                   adapter, mainProc>>

\* the next run of the program: new Storage(filePath, defaultData)
StorageConstruct ==
    /\ ~storage.alive
    /\ storage' = [storage EXCEPT !.alive = TRUE, !.pc = "idle",
                                  !.data = load(storage.file),
                                  !.arg = load(storage.file), !.outcome = "none"]
    /\ UNCHANGED <<cacheVars, metricsVars, controllerVars, clickPoint, explore, humanizer, mousePath,
                   adapter, mainProc>>

\* a Storage constructed over the file earlier runs left
StorageOver(file) ==
    [data |-> load(file), file |-> file, temp |-> Absent, pc |-> "idle", alive |-> TRUE,
     old |-> file, saves |-> 0, arg |-> load(file), outcome |-> "none"]

StorageIdle == storage = StorageOver(Absent)

(***************************************************************************)
(* BrowserAdapter.  adapter: browser, context, page (the three fields; a   *)
(* context or page is the number of the launch that made it), contexts     *)
(* (per launched context, the number of times its close() was called),     *)
(* log (history: per call of init or close, whether it threw and the       *)
(* fields after it).  A call returns [state, threw].                       *)
(***************************************************************************)
MaxAdapterCalls == 4    \* calls of init / close made on one adapter

NewAdapter ==
    [browser |-> None, context |-> None, page |-> None, contexts |-> <<>>, log |-> <<>>]

Fields(a) == [browser |-> a.browser, context |-> a.context, page |-> a.page]

\* init: launchOk, launchPersistentContext resolves; pageOk, the context has a
\* page or newPage() resolves.  The catch logs and rethrows.
init(a, launchOk, pageOk) ==
    IF ~launchOk THEN [state |-> a, threw |-> TRUE]
    ELSE LET id == Len(a.contexts) + 1
             launched == [a EXCEPT !.contexts = Append(@, 0), !.context = Some(id)]
         IN  IF pageOk
             THEN [state |-> [launched EXCEPT !.page = Some(id)], threw |-> FALSE]
             ELSE [state |-> launched, threw |-> TRUE]

\* A plausible slip: context.close() awaited without its catch
closeUncaught(a, rejects) ==
    IF a.context # None /\ rejects
    THEN [state |-> [a EXCEPT !.contexts[a.context[1]] = @ + 1], threw |-> TRUE]
    ELSE [state |-> IF a.context # None
                    THEN [a EXCEPT !.contexts[a.context[1]] = @ + 1,
                                   !.context = None, !.page = None]
                    ELSE a,
          threw |-> FALSE]

\* close: rejects, the close() of the context (or browser) rejects
close(a, rejects) ==
    LET afterContext == IF a.context # None
                        THEN [a EXCEPT !.contexts[a.context[1]] = @ + 1,
                                       !.context = None, !.page = None]
                        ELSE a
        afterBrowser == IF afterContext.browser # None
                        THEN [afterContext EXCEPT !.browser = None]
                        ELSE afterContext
    IN  [state |-> afterBrowser, threw |-> FALSE]

\* getPage throws when there is no page
getPage(a) == [state |-> a, threw |-> a.page = None]

Logged(op, r) ==
    [r.state EXCEPT !.log = Append(@, [op |-> op, threw |-> r.threw,
                                       after |-> Fields(r.state)])]

AdapterInit ==
    /\ Len(adapter.log) < MaxAdapterCalls
    /\ \E launchOk \in BOOLEAN, pageOk \in BOOLEAN :
          adapter' = Logged("init", init(adapter, launchOk, pageOk))
    /\ UNCHANGED <<cacheVars, metricsVars, controllerVars, clickPoint, explore, humanizer, mousePath,
                   storage, mainProc>>

AdapterClose ==
    /\ Len(adapter.log) < MaxAdapterCalls
    /\ \E rejects \in BOOLEAN :
          adapter' = Logged(IF rejects THEN "closeRejected" ELSE "close",
                            close(adapter, rejects))
    /\ UNCHANGED <<cacheVars, metricsVars, controllerVars, clickPoint, explore, humanizer, mousePath,
                   storage, mainProc>>

AdapterIdle == adapter = NewAdapter

(***************************************************************************)
(* main.  mainProc: config (parseArgs), pc ("start", "init", "clicks",     *)
(* "quizzes", "summary", "catch", "finally", then "returned" or "exited"), *)
(* results, fatal (history: the catch was entered), exitCode (of the       *)
(* process, once it has ended).  process.exit ends the process where it is *)
(* called: nothing after it runs.                                          *)
(***************************************************************************)
Statuses == {"ok", "failed", "skipped"}

Configs == [dryRun : BOOLEAN, skipClicks : BOOLEAN, skipQuizzes : BOOLEAN,
            showMetrics : BOOLEAN]

MainCall(config) ==
    [config |-> config, pc |-> "start", results |-> <<>>, fatal |-> FALSE,
     exitCode |-> None]

\* the step of the try block after the browser / after the click handler
AfterInit(config) ==
    IF ~config.skipClicks THEN "clicks"
    ELSE IF ~config.skipQuizzes THEN "quizzes" ELSE "summary"

AfterClicks(config) == IF ~config.skipQuizzes THEN "quizzes" ELSE "summary"

\* if (config.showMetrics) { ...; process.exit(0); }
MainStart ==
    /\ mainProc.pc = "start"
    /\ mainProc' = IF mainProc.config.showMetrics
                   THEN [mainProc EXCEPT !.pc = "exited", !.exitCode = Some(0)]
                   ELSE [mainProc EXCEPT !.pc = "init"]
    /\ UNCHANGED <<cacheVars, metricsVars, controllerVars, clickPoint, explore, humanizer, mousePath,
                   storage, adapter>>

\* await browser.init(config.userDataDir, false); const page = browser.getPage()
MainInit ==
    /\ mainProc.pc = "init"
    /\ \E launchOk \in BOOLEAN, pageOk \in BOOLEAN :
          LET r == init(adapter, launchOk, pageOk)
          IN  /\ adapter' = Logged("init", r)
              /\ mainProc' = IF r.threw \/ getPage(r.state).threw
                             THEN [mainProc EXCEPT !.pc = "catch"]
                             ELSE [mainProc EXCEPT !.pc = AfterInit(mainProc.config)]
    /\ UNCHANGED <<cacheVars, metricsVars, controllerVars, clickPoint, explore, humanizer, mousePath,
                   storage>>

\* a handler is run, its result pushed, logged and recorded; or the step throws
MainHandler(at, handler, next) ==
    /\ mainProc.pc = at
    /\ \/ \E status \in Statuses :
             mainProc' = [mainProc EXCEPT
                            !.results = Append(@, [handler |-> handler, status |-> status]),
                            !.pc = next]
       \/ mainProc' = [mainProc EXCEPT !.pc = "catch"]
    /\ UNCHANGED <<cacheVars, metricsVars, controllerVars, clickPoint, explore, humanizer, mousePath,
                   storage, adapter>>

MainClicks == MainHandler("clicks", "ClickHandler", AfterClicks(mainProc.config))

MainQuizzes == MainHandler("quizzes", "QuizHandler", "summary")

\* the summary is printed and the browser kept open briefly
MainSummary ==
    /\ mainProc.pc = "summary"
    /\ mainProc' = [mainProc EXCEPT !.pc = "finally"]
    /\ UNCHANGED <<cacheVars, metricsVars, controllerVars, clickPoint, explore, humanizer, mousePath,
                   storage, adapter>>

\* catch (err) { ...; process.exit(1); }
MainCatch ==
    /\ mainProc.pc = "catch"
    /\ mainProc' = [mainProc EXCEPT !.pc = "exited", !.fatal = TRUE,
                                    !.exitCode = Some(1)]
    /\ UNCHANGED <<cacheVars, metricsVars, controllerVars, clickPoint, explore, humanizer, mousePath,
                   storage, adapter>>

\* finally { await browser.close(); ... }; main returns and the process ends
MainFinally ==
    /\ mainProc.pc = "finally"
    /\ \E rejects \in BOOLEAN :
          adapter' = Logged(IF rejects THEN "closeRejected" ELSE "close",
                            close(adapter, rejects))
    /\ mainProc' = [mainProc EXCEPT !.pc = "returned", !.exitCode = Some(0)]
    /\ UNCHANGED <<cacheVars, metricsVars, controllerVars, clickPoint, explore, humanizer, mousePath,
                   storage>>

MainIdle ==
    mainProc = [MainCall([dryRun |-> FALSE, skipClicks |-> FALSE, skipQuizzes |-> FALSE,
                          showMetrics |-> FALSE]) EXCEPT !.pc = "idle"]

(***************************************************************************)
(* Initial states.  A store is constructed over its file (Storage.load),   *)
(* so it starts from the document earlier runs of the program saved: the   *)
(* default when there is no file, or runs / daily points recorded earlier. *)
(***************************************************************************)
EmptyMetrics == [runs |-> <<>>, dailyPoints |-> <<>>]

\* n runs recorded by earlier invocations, at instants 1..n
EarlierRuns(n) == [i \in 1..n |-> RunMetricOf(i, "ClickHandler", "ok", 100, 1, None)]

\* m daily entries recorded on the m days before firstDay, one per day
EarlierPoints(m, firstDay) ==
    [i \in 1..m |-> DailyPointsOf(firstDay - m + i - 1, 5, "search")]

FirstDay == DailySliceKeep + 1

\* a call of the Humanizer with its arguments
HumanizerCall(method, text, box) ==
    [method |-> method, text |-> text, box |-> box, pc |-> "boundingBox", i |-> 0,
     events |-> <<>>, thrown |-> None]

HumanizerIdle == humanizer = [HumanizerCall("clickHuman", <<>>, TRUE) EXCEPT !.pc = "idle"]

\* a call of generateMousePath with its arguments
MousePathCall(startX, startY, endX, endY, steps, jitter) ==
    [args |-> [startX |-> startX, startY |-> startY, endX |-> endX, endY |-> endY,
               steps |-> steps, jitter |-> jitter],
     pc |-> "call", path |-> <<>>]

NoJitter == [c1x |-> 0, c1y |-> 0, c2x |-> 0, c2y |-> 0]

MousePathIdle == mousePath = [MousePathCall(0, 0, 0, 0, PathSteps, NoJitter) EXCEPT !.pc = "idle"]

ToolIdle ==
    HumanizerIdle /\ MousePathIdle /\ StorageIdle /\ AdapterIdle /\ MainIdle /\ ClickPointIdle
    /\ ExploreIdle

CacheIdle ==
    /\ cache = <<>>
    /\ cacheFile = <<>>
    /\ lastStore = None

MetricsIdle ==
    /\ metrics = EmptyMetrics
    /\ metricsFile = EmptyMetrics
    /\ today = FirstDay
    /\ clock = 1
    /\ recorded = <<>>
    /\ pointsSum = <<>>
    /\ lastPoints = None

\* the ActionResult a run starts from
NewResult(type, meta) ==
    [type |-> type, status |-> "skipped", attempts |-> 0, durationMs |-> 0, meta |-> meta]

\* a "More activities" card that qualifies; the titles repeat
StdCard(i) ==
    CardOf(TRUE, FALSE, TRUE, FALSE,
           Some(IF i % 2 = 1 THEN <<"Daily", " ", "set">> ELSE <<" ", "Shop", " ">>),
           None, TRUE, None)

\* an "Explore on Bing" card that qualifies; the second has no text to search
ExpCard(i) ==
    IF i % 2 = 1
    THEN CardOf(TRUE, FALSE, FALSE, FALSE, Some(<<"Explore">>),
                Some(<<"Search", " ", "on", " ", "Bing", " ", "for", " ", "pizza">>),
                TRUE, None)
    ELSE CardOf(TRUE, FALSE, FALSE, FALSE, Some(<<" ">>), None, TRUE, None)

\* the cards of a dashboard in any state: one that qualifies, and the ways a
\* card can differ from it
CardKinds == {"ok", "hidden", "completed", "noPoints", "quiz", "noLink", "untitled",
              "throws"}

MixedCard(kind) ==
    CardOf(kind # "hidden", kind = "completed", kind # "noPoints", kind = "quiz",
           IF kind = "untitled" THEN None ELSE Some(<<"Daily", " ", "set">>),
           None, kind # "noLink",
           IF kind = "throws" THEN Some("title") ELSE None)

\* the sequences over S of length at most n
SeqsUpTo(S, n) == UNION {[1..k -> S] : k \in 0..n}

\* a dashboard with the given cards in its two sections; byHeading: the
\* heading-based locator finds the "More activities" cards, else only the
\* older XPath does
MixedDashboardOf(moreKinds, exploreKinds, byHeading) ==
    LET more == [i \in 1..Len(moreKinds) |-> MixedCard(moreKinds[i])]
    IN  [moreByHeading |-> IF byHeading THEN more ELSE <<>>,
         moreByXPath |-> more,
         explore |-> [i \in 1..Len(exploreKinds) |-> MixedCard(exploreKinds[i])],
         quiz |-> <<>>]

\* a card with a quiz indicator: what findQuizActivities reads from it
QuizCard(id, completed, locked, text) ==
    [id |-> id, completed |-> completed, locked |-> locked, text |-> text]

\* nOpen quiz cards not yet completed, found by the first selector.  The
\* third card repeats the first's text.  shape "more": a completed quiz
\* card before them, and the first open card found again by
\* '[data-bi-id*="quiz"]'; shape "locked": a locked card (tomorrow's quiz,
\* with the lock icon) before them.
QuizShapes == {"plain", "more", "locked"}

QuizDashboardOf(nOpen, shape) ==
    LET open == [i \in 1..nOpen |->
                   QuizCard(i, FALSE, FALSE, IF i % 2 = 1 THEN Some("Daily quiz") ELSE None)]
        first == CASE shape = "more" -> <<QuizCard(0, TRUE, FALSE, Some("Done quiz"))>> \o open
                   [] shape = "locked" ->
                        <<QuizCard(0, FALSE, TRUE, Some("Tomorrow Quiz"))>> \o open
                   [] OTHER -> open
        fifth == IF shape = "more" /\ nOpen > 0 THEN <<open[1]>> ELSE <<>>
    IN  [moreByHeading |-> <<>>, moreByXPath |-> <<>>, explore |-> <<>>,
         quiz |-> <<first, <<>>, <<>>, <<>>, fifth, <<>>, <<>>>>]

DashboardOf(nStd, nExp) ==
    [moreByHeading |-> [i \in 1..nStd |-> StdCard(i)],
     moreByXPath |-> <<>>,
     explore |-> [i \in 1..nExp |-> ExpCard(i)],
     quiz |-> <<>>]

RunIdle ==
    /\ cfg = [dryRun |-> FALSE, maxActionsPerHour |-> DefaultMaxActions]
    /\ dashboard = DashboardOf(0, 0)
    /\ pc = "idle"
    /\ result = NewResult("click", [clickedActivities |-> <<>>])
    /\ startTime = 0
    /\ now = 0
    /\ thrown = None
    /\ opsIssued = {}
    /\ lastOps = [ops |-> <<>>, failedAt |-> "", othersOpen |-> FALSE, origFocused |-> TRUE]
    /\ pageAt = BlankUrl

ClickIdle ==
    /\ activities = <<>>
    /\ idx = 1
    /\ clickedCount = 0
    /\ outcomes = <<>>

QuizIdle ==
    /\ quizzes = <<>>
    /\ quizIdx = 1
    /\ completedCount = 0
    /\ hqElapsed = 0
    /\ options = 0
    /\ optIdx = 1
    /\ lastQuiz = NoQuiz

\* QACache: new QACache(path) with no file
InitCache ==
    /\ CacheIdle
    /\ ToolIdle
    /\ MetricsIdle
    /\ RunIdle
    /\ ClickIdle
    /\ QuizIdle
    /\ nCalls = 0

\* ClickHandler.run(page) entered: result and startTime are set
InitClick ==
    /\ CacheIdle
    /\ ToolIdle
    /\ MetricsIdle
    /\ nCalls = 0
    /\ cfg \in [dryRun : BOOLEAN, maxActionsPerHour : ActionCaps]
    /\ dashboard \in {DashboardOf(nStd, nExp) : nStd \in 0..MaxStd, nExp \in 0..MaxExp}
    /\ pc = "navigate"
    /\ result = NewResult("click", [clickedActivities |-> <<>>])
    /\ startTime = 0
    /\ now = 0
    /\ thrown = None
    /\ opsIssued = {}
    /\ lastOps = [ops |-> <<>>, failedAt |-> "", othersOpen |-> FALSE, origFocused |-> TRUE]
    /\ pageAt = BlankUrl
    /\ ClickIdle
    /\ QuizIdle

\* QuizHandler.run(page) entered: result and startTime are set
InitQuiz ==
    /\ CacheIdle
    /\ ToolIdle
    /\ MetricsIdle
    /\ nCalls = 0
    /\ cfg \in [dryRun : BOOLEAN, maxActionsPerHour : ActionCaps]
    /\ dashboard \in {QuizDashboardOf(nOpen, shape) : nOpen \in 0..MaxQuizzes,
                                                     shape \in QuizShapes}
    /\ pc = "navigate"
    /\ result = NewResult("quiz", [quizzesCompleted |-> 0, correctAnswers |-> 0])
    /\ startTime = 0
    /\ now = 0
    /\ thrown = None
    /\ opsIssued = {}
    /\ lastOps = [ops |-> <<>>, failedAt |-> "", othersOpen |-> FALSE, origFocused |-> TRUE]
    /\ pageAt = BlankUrl
    /\ ClickIdle
    /\ QuizIdle

\* the reads of processCard that may reject, per section: the points and quiz
\* indicators are read of "More activities" cards only
MaxFaultyStd == 2    \* "More activities" cards of a dashboard of faulty cards
MaxFaultyExp == 1    \* "Explore on Bing" cards of a dashboard of faulty cards
StdFaults == {"isVisible", "completed", "points", "quiz", "title", "description", "link"}
ExpFaults == {"isVisible", "completed", "title", "description", "link"}

\* a card that qualifies but for the one read that rejects ("ok": none does)
FaultyCard(fault) ==
    CardOf(TRUE, FALSE, TRUE, FALSE, Some(<<"Daily", " ", "set">>),
           IF fault = "description" THEN None ELSE Some(<<"Earn", " ", "points">>),
           TRUE,
           IF fault \in {"ok", "description"} THEN None ELSE Some(fault))

FaultyDashboardOf(moreFaults, exploreFaults) ==
    [moreByHeading |-> [i \in 1..Len(moreFaults) |-> FaultyCard(moreFaults[i])],
     moreByXPath |-> <<>>,
     explore |-> [i \in 1..Len(exploreFaults) |-> FaultyCard(exploreFaults[i])],
     quiz |-> <<>>]

\* ClickHandler.run(page) entered in dry-run on a dashboard of faulty cards
InitFaulty ==
    /\ CacheIdle
    /\ ToolIdle
    /\ MetricsIdle
    /\ nCalls = 0
    /\ cfg = [dryRun |-> TRUE, maxActionsPerHour |-> DefaultMaxActions]
    /\ dashboard \in {FaultyDashboardOf(m, e) :
                          m \in SeqsUpTo(StdFaults \cup {"ok"}, MaxFaultyStd),
                          e \in SeqsUpTo(ExpFaults \cup {"ok"}, MaxFaultyExp)}
    /\ pc = "navigate"
    /\ result = NewResult("click", [clickedActivities |-> <<>>])
    /\ startTime = 0
    /\ now = 0
    /\ thrown = None
    /\ opsIssued = {}
    /\ lastOps = [ops |-> <<>>, failedAt |-> "", othersOpen |-> FALSE, origFocused |-> TRUE]
    /\ pageAt = BlankUrl
    /\ ClickIdle
    /\ QuizIdle

\* ClickHandler.run(page) entered in dry-run on a dashboard of mixed cards
InitDiscover ==
    /\ CacheIdle
    /\ ToolIdle
    /\ MetricsIdle
    /\ nCalls = 0
    /\ cfg = [dryRun |-> TRUE, maxActionsPerHour |-> DefaultMaxActions]
    /\ dashboard \in {MixedDashboardOf(m, e, h) : m \in SeqsUpTo(CardKinds, MaxMixedStd),
                                                  e \in SeqsUpTo(CardKinds, MaxMixedExp),
                                                  h \in BOOLEAN}
    /\ pc = "navigate"
    /\ result = NewResult("click", [clickedActivities |-> <<>>])
    /\ startTime = 0
    /\ now = 0
    /\ thrown = None
    /\ opsIssued = {}
    /\ lastOps = [ops |-> <<>>, failedAt |-> "", othersOpen |-> FALSE, origFocused |-> TRUE]
    /\ pageAt = BlankUrl
    /\ ClickIdle
    /\ QuizIdle

\* a method of the Humanizer entered
InitHumanizer ==
    /\ CacheIdle
    /\ MetricsIdle
    /\ nCalls = 0
    /\ RunIdle
    /\ ClickIdle
    /\ QuizIdle
    /\ MousePathIdle
    /\ StorageIdle
    /\ AdapterIdle
    /\ MainIdle
    /\ ClickPointIdle
    /\ ExploreIdle
    /\ humanizer \in {HumanizerCall(m, <<>>, b) : m \in ClickMethods, b \in BOOLEAN}
                    \cup {HumanizerCall(m, t, b) : m \in TypeMethods,
                                                   t \in SeqsUpTo(TypedChars, MaxText),
                                                   b \in BOOLEAN}

\* generateMousePath called
InitMousePath ==
    /\ CacheIdle
    /\ MetricsIdle
    /\ nCalls = 0
    /\ RunIdle
    /\ ClickIdle
    /\ QuizIdle
    /\ HumanizerIdle
    /\ StorageIdle
    /\ AdapterIdle
    /\ MainIdle
    /\ ClickPointIdle
    /\ ExploreIdle
    /\ mousePath \in {MousePathCall(x0, y0, x1, y1, steps, jitter) :
                        x0 \in Coords, y0 \in Coords, x1 \in Coords, y1 \in Coords,
                        steps \in StepValues,
                        jitter \in [c1x : Jitters, c1y : Jitters, c2x : Jitters,
                                    c2y : Jitters]}

\* MetricsStore over a file holding 0, 999 or 1000 earlier runs
InitRuns ==
    /\ CacheIdle
    /\ ToolIdle
    /\ \E n \in {0, RunsSliceKeep, RunsSliceKeep + 1} :
          /\ metrics = [runs |-> EarlierRuns(n), dailyPoints |-> <<>>]
          /\ clock = n + 1
    /\ metricsFile = metrics
    /\ recorded = metrics.runs
    /\ today = FirstDay
    /\ pointsSum = <<>>
    /\ lastPoints = None
    /\ nCalls = 0
    /\ RunIdle
    /\ ClickIdle
    /\ QuizIdle

\* MetricsStore over a file holding 0, 364 or 365 earlier daily entries
InitPoints ==
    /\ CacheIdle
    /\ ToolIdle
    /\ \E m \in {0, DailySliceKeep - 1, DailySliceKeep} :
          /\ metrics = [runs |-> EarlierRuns(2), dailyPoints |-> EarlierPoints(m, FirstDay)]
          /\ pointsSum = [k \in {<<FirstDay - m + i - 1, "search">> : i \in 1..m} |-> 5]
    /\ metricsFile = metrics
    /\ recorded = metrics.runs
    /\ clock = 3
    /\ today = FirstDay
    /\ lastPoints = None
    /\ nCalls = 0
    /\ RunIdle
    /\ ClickIdle
    /\ QuizIdle

NextCache == StoreAction
NextRuns == RecordRunAction
NextPoints == RecordPointsAction \/ AdvanceDay

SpecCache == InitCache /\ [][NextCache]_vars
SpecRuns == InitRuns /\ [][NextRuns]_vars
SpecPoints == InitPoints /\ [][NextPoints]_vars

NextClick == ClickNavigate \/ ClickDiscover \/ ClickIterate \/ ClickFinish
SpecClick == InitClick /\ [][NextClick]_vars

NextQuiz ==
    QuizNavigate \/ QuizDiscover \/ QuizOpen \/ HandleQuizScan \/ HandleQuizOption \/ QuizFinish
SpecQuiz == InitQuiz /\ [][NextQuiz]_vars

\* QuizHandler.run when every awaited operation of handleQuiz settles: a step
\* of the solve loop that can be taken is taken
SpecQuizFair == SpecQuiz /\ WF_vars(HandleQuizScan) /\ WF_vars(HandleQuizOption)

\* either controller, as main runs them
InitHandlers == InitClick \/ InitQuiz
NextHandlers == NextClick \/ NextQuiz
SpecHandlers == InitHandlers /\ [][NextHandlers]_vars

\* click-activity discovery over dashboards of mixed cards
SpecDiscover == InitDiscover /\ [][NextClick]_vars

\* click-activity discovery over dashboards of cards with a read that rejects
SpecFaulty == InitFaulty /\ [][NextClick]_vars

NextHumanizer == BoundingBox \/ MouseMove \/ MouseDown \/ MouseUp \/ ClearPress \/ TypeChar
SpecHumanizer == InitHumanizer /\ [][NextHumanizer]_vars

NextMousePath == GenerateMousePathAction
SpecMousePath == InitMousePath /\ [][NextMousePath]_vars

ControllersIdle ==
    /\ CacheIdle
    /\ MetricsIdle
    /\ nCalls = 0
    /\ RunIdle
    /\ ClickIdle
    /\ QuizIdle
    /\ HumanizerIdle
    /\ MousePathIdle
    /\ ClickPointIdle
    /\ ExploreIdle

\* a Storage constructed over no file or over a document saved earlier
InitStorage ==
    /\ ControllersIdle
    /\ AdapterIdle
    /\ MainIdle
    /\ storage \in {StorageOver(file) : file \in {Absent} \cup {Whole(d) : d \in Docs}}

NextStorage ==
    StorageSet \/ SaveMkdir \/ SaveWriteTemp \/ SaveRename \/ StorageCrash
        \/ StorageConstruct
SpecStorage == InitStorage /\ [][NextStorage]_vars

\* a Storage constructed over whatever is at its path: no file, a document, or
\* a file that does not parse
InitStorageAny ==
    /\ ControllersIdle
    /\ AdapterIdle
    /\ MainIdle
    /\ storage \in {StorageOver(file) :
                       file \in {Absent} \cup {Whole(d) : d \in Docs}
                                       \cup {PartOf(d) : d \in Docs}}

SpecStorageAny == InitStorageAny /\ [][NextStorage]_vars

\* const browser = new BrowserAdapter()
InitAdapter ==
    /\ ControllersIdle
    /\ StorageIdle
    /\ MainIdle
    /\ adapter = NewAdapter

NextAdapter == AdapterInit \/ AdapterClose
SpecAdapter == InitAdapter /\ [][NextAdapter]_vars

\* main called with the configuration parseArgs built
InitMain ==
    /\ ControllersIdle
    /\ StorageIdle
    /\ adapter = NewAdapter
    /\ mainProc \in {MainCall(config) : config \in Configs}

NextMain ==
    MainStart \/ MainInit \/ MainClicks \/ MainQuizzes \/ MainSummary \/ MainCatch
        \/ MainFinally
SpecMain == InitMain /\ [][NextMain]_vars

\* clickHuman has its box and is about to choose the point to click
InitClickPoint ==
    /\ CacheIdle
    /\ MetricsIdle
    /\ nCalls = 0
    /\ RunIdle
    /\ ClickIdle
    /\ QuizIdle
    /\ HumanizerIdle
    /\ MousePathIdle
    /\ StorageIdle
    /\ AdapterIdle
    /\ MainIdle
    /\ ExploreIdle
    /\ clickPoint \in {ClickPointCall([x |-> x, y |-> y, width |-> w, height |-> h], kx, ky) :
                          x \in BoxXs, y \in BoxYs, w \in BoxWidths, h \in BoxHeights,
                          kx \in 0..(MaxDraws - 1), ky \in 0..(MaxDraws - 1)}

\* the query of one explore card asked for
InitExplore ==
    /\ CacheIdle
    /\ MetricsIdle
    /\ nCalls = 0
    /\ RunIdle
    /\ ClickIdle
    /\ QuizIdle
    /\ HumanizerIdle
    /\ MousePathIdle
    /\ StorageIdle
    /\ AdapterIdle
    /\ MainIdle
    /\ ClickPointIdle
    /\ explore \in {ExploreCall(t, d) : t \in ExploreTitles, d \in Descriptions}

NextExplore == ExploreQuery
SpecExplore == InitExplore /\ [][NextExplore]_vars

NextClickPoint == ChooseTarget
SpecClickPoint == InitClickPoint /\ [][NextClickPoint]_vars

(***************************************************************************)
(* Claims: QACache and MetricsStore                                        *)
(***************************************************************************)
\* C1: once the record of a question hash is correct, a store for the same
\* hash with correct = false leaves the record (answerIndex, correct,
\* evidence) as it was, and lookup of the question returns the earlier
\* correct record.
C1_StickyCorrect ==
    (/\ lastStore # None
     /\ lastStore[1].before # None
     /\ lastStore[1].before[1].correct
     /\ ~lastStore[1].record.correct)
    => /\ lookup(lastStore[1].question) = lastStore[1].before
       /\ cache[lastStore[1].hash].correct
       /\ \A q \in Questions :
             hashQuestion(q) = lastStore[1].hash => lookup(q) = lastStore[1].before

\* C1 witness: an incorrect attempt with another answer and other evidence was
\* stored over a correct record, under another spelling of the question.
C1_Witness ==
    /\ lastStore # None
    /\ lastStore[1].before # None
    /\ lastStore[1].before[1].correct
    /\ ~lastStore[1].record.correct
    /\ lastStore[1].record.answerIndex # lastStore[1].before[1].answerIndex
    /\ lastStore[1].record.evidence # lastStore[1].before[1].evidence
    /\ Normalize(lastStore[1].question) # lastStore[1].question

\* C2: runs holds at most 1000 entries, and they are the most recently
\* recorded runs in recording order; after 1005 calls the last 1000 remain.
C2_RunsAreLastThousand ==
    /\ Len(metrics.runs) <= 1000
    /\ metrics.runs = SliceLast(recorded, 1000)
    /\ Len(recorded) >= 1000 => Len(metrics.runs) = 1000

\* C2 witness: 1005 runs were recorded, the first five are gone.
C2_Witness ==
    /\ Len(recorded) = 1005
    /\ Len(metrics.runs) = 1000
    /\ metrics.runs[1] = recorded[6]
    /\ metrics.runs[1000] = recorded[1005]

\* C3 (as claimed): dailyPoints holds at most 365 entries.
C3_DailyPointsAtMost365 == Len(metrics.dailyPoints) <= 365

\* C4: dailyPoints never holds two entries with the same (date, source); a
\* recordPoints for a pair that has an entry adds the points to that entry,
\* appends nothing and leaves every other entry and the runs unchanged; an
\* entry's points are the sum of the amounts recorded for its pair.
C4_PointsAccumulate ==
    LET dp == metrics.dailyPoints
    IN  /\ Cardinality({<<dp[i].date, dp[i].source>> : i \in 1..Len(dp)}) = Len(dp)
        /\ \A i \in 1..Len(dp) : dp[i].points = pointsSum[<<dp[i].date, dp[i].source>>]
        /\ lastPoints # None =>
              LET call   == lastPoints[1]
                  before == call.before.dailyPoints
                  at     == FindIndex(before, call.date, call.source)
              IN  /\ metrics.runs = call.before.runs
                  /\ at >= 1 =>
                        /\ Len(dp) = Len(before)
                        /\ \A i \in 1..Len(dp) : i # at => dp[i] = before[i]
                        /\ dp[at] = [before[at] EXCEPT !.points = @ + call.points]

\* C4 witness: 10 then 15 points for the same (date, source): one entry of 25.
C4_Witness ==
    /\ lastPoints # None
    /\ FindIndex(lastPoints[1].before.dailyPoints, lastPoints[1].date, lastPoints[1].source) >= 1
    /\ \E i \in 1..Len(metrics.dailyPoints) :
          /\ metrics.dailyPoints[i].date = lastPoints[1].date
          /\ metrics.dailyPoints[i].source = lastPoints[1].source
          /\ metrics.dailyPoints[i].points = 25
    /\ metrics.runs # <<>>

(***************************************************************************)
(* Claims: ClickHandler.run                                                *)
(***************************************************************************)
\* the operations that change the page: pointer, keyboard, scroll, tabs
PageMutations == {"pointerMove", "pointerDown", "pointerUp", "key", "scroll",
                  "tabFocus", "tabClose"}

\* the attempts of outcomes[1..n] that succeeded
Successes(n) == {k \in 1..n : outcomes[k].success}

\* the titles of the succeeded attempts, in processing order
RECURSIVE SucceededTitles(_)
SucceededTitles(os) ==
    IF os = <<>> THEN <<>>
    ELSE (IF Head(os).success THEN <<Head(os).title>> ELSE <<>>) \o SucceededTitles(Tail(os))

ClickRan == result.type = "click" /\ pc # "idle"

\* C5: in one run the successful clicks never exceed min(10,
\* maxActionsPerHour), the activities are taken in discovery order, and no
\* activity is attempted once that many have succeeded.
C5_ClickCap ==
    ClickRan =>
        LET cap == Min(10, cfg.maxActionsPerHour)
        IN  /\ clickedCount = Cardinality(Successes(Len(outcomes)))
            /\ clickedCount <= cap
            /\ \A k \in 1..Len(outcomes) :
                  /\ outcomes[k].index = k
                  /\ outcomes[k].title = activities[k].title
                  /\ Cardinality(Successes(k - 1)) < cap
            /\ pc = "done" /\ thrown = None =>
                  Len(outcomes) = Len(activities) \/ clickedCount = cap

\* C5 witness: ten clicks succeeded, the run returned, an activity is left.
C5_Witness ==
    /\ ClickRan
    /\ pc = "done"
    /\ clickedCount = 10
    /\ Len(outcomes) < Len(activities)
    /\ cfg.maxActionsPerHour > 10

\* C6 (as claimed): result.attempts never exceeds maxActionsPerHour.
C6_AttemptsWithinMaxActions ==
    ClickRan => result.attempts <= cfg.maxActionsPerHour

\* C7: with dryRun, no pointer-move, pointer-down, pointer-up, keystroke,
\* scroll or tab operation is issued; every processed activity counts as a
\* success; one eligible standard activity gives status ok with attempts 1.
C7_DryRunTouchesNothing ==
    (ClickRan /\ cfg.dryRun) =>
        /\ opsIssued \cap PageMutations = {}
        /\ lastOps.ops = <<>>
        /\ \A k \in 1..Len(outcomes) : outcomes[k].success
        /\ result.attempts = clickedCount
        /\ (pc = "done" /\ Len(activities) = 1 /\ activities[1].type = "standard") =>
              result.status = "ok" /\ result.attempts = 1

\* C7 witness: a dry run over one standard activity returned ok.
C7_Witness ==
    /\ ClickRan
    /\ cfg.dryRun
    /\ pc = "done"
    /\ Len(activities) = 1
    /\ activities[1].type = "standard"
    /\ result.status = "ok"
    /\ result.attempts = 1
    /\ opsIssued = {"navigate"}

\* C8: with an activity discovered and no top-level error, run returns ok
\* exactly when an activity succeeded and failed otherwise;
\* meta.clickedActivities holds the titles of the succeeded activities in
\* processing order and meta.totalClicked their number.
C8_ClickResult ==
    (ClickRan /\ pc = "done" /\ thrown = None /\ Len(activities) >= 1) =>
        /\ result.status = "ok" <=> Successes(Len(outcomes)) # {}
        /\ result.status = "failed" <=> Successes(Len(outcomes)) = {}
        /\ result.meta.clickedActivities = SucceededTitles(outcomes)
        /\ result.meta.totalClicked = Cardinality(Successes(Len(outcomes)))

\* C8 witness: a run in which one activity failed and two succeeded returned.
C8_Witness ==
    /\ ClickRan
    /\ pc = "done"
    /\ thrown = None
    /\ Len(outcomes) = 3
    /\ ~outcomes[1].success
    /\ result.status = "ok"
    /\ result.meta.totalClicked = 2
    /\ Len(result.meta.clickedActivities) = 2

\* the run returned after its discovery found nothing
FoundNothing ==
    /\ pc = "done"
    /\ thrown = None
    /\ \/ result.type = "click" /\ activities = <<>>
       \/ result.type = "quiz" /\ quizzes = <<>>

\* C9: when discovery finds nothing (no clickable activity for
\* ClickHandler, no quiz for QuizHandler), run returns skipped with
\* attempts 0 and meta.reason "No incomplete activities" / "No quiz
\* activities found", and nothing on the page was clicked, typed, scrolled
\* or switched.
C9_NothingToDo ==
    FoundNothing =>
        /\ result.status = "skipped"
        /\ result.attempts = 0
        /\ result.meta = [reason |-> IF result.type = "click"
                                     THEN "No incomplete activities"
                                     ELSE "No quiz activities found"]
        /\ opsIssued = {"navigate"}
        /\ lastOps.ops = <<>>
        /\ outcomes = <<>>

\* C9 witness: QuizHandler.run returned over a dashboard whose only quiz
\* card is completed.
C9_Witness ==
    /\ FoundNothing
    /\ result.type = "quiz"
    /\ Len(dashboard.quiz[1]) = 1
    /\ result.status = "skipped"

\* ClickHandler.run returned over a dashboard without activities
C9_ClickFoundNothing ==
    /\ FoundNothing
    /\ result.type = "click"
    /\ result.status = "skipped"

\* C10: an exception while one activity is handled stays in that activity:
\* it is one failed attempt (attempts counts it, clickedActivities does
\* not), no error reaches run, every later activity is still processed
\* (up to the cap), and the run is ok when another activity succeeds.
C10_PerActivityFailure ==
    ClickRan =>
        /\ (lastOps.failedAt # "") =>
              /\ outcomes # <<>>
              /\ ~outcomes[Len(outcomes)].success
              /\ thrown = None
              /\ pc \in {"loop", "done"}
              /\ idx = Len(outcomes) + 1
        /\ result.attempts = Len(outcomes)
        /\ pc = "loop" => result.meta.clickedActivities = SucceededTitles(outcomes)
        /\ (pc = "done" /\ thrown = None /\ Len(activities) >= 1) =>
              /\ Len(outcomes) = Len(activities) \/ clickedCount >= maxClicks
              /\ Successes(Len(outcomes)) # {} => result.status = "ok"

\* C10 witness: the first activity had no bounding box, the second succeeded
\* after it, and the run returned ok.
C10_Witness ==
    /\ ClickRan
    /\ pc = "done"
    /\ Len(outcomes) = 2
    /\ ~outcomes[1].success
    /\ outcomes[2].success
    /\ result.status = "ok"
    /\ result.attempts = 2

\* a live activity failed at boundingBox after the scroll had been issued
C10_FailedAtBoundingBox ==
    /\ ClickRan
    /\ lastOps.failedAt = "boundingBox"
    /\ lastOps.ops = <<[op |-> "scroll", count |-> 1]>>

(***************************************************************************)
(* Claims: errors at the top of run, QuizHandler.run                       *)
(***************************************************************************)
\* C11: when a step at the top of run (the first navigation, discovery)
\* fails in ClickHandler.run or QuizHandler.run, run still returns: status
\* failed, meta.error the message of the error, durationMs the time elapsed.
C11_TopLevelFailure ==
    /\ thrown # None =>
          /\ pc = "done"
          /\ result.status = "failed"
          /\ result.meta = [error |-> thrown[1].message]
    /\ pc = "done" => result.durationMs = now - startTime

\* C11 witness: the first navigation of QuizHandler.run failed; run returned
\* after MaxElapsed with nothing done on the page.
C11_Witness ==
    /\ thrown = Some(ErrorOf("Network error"))
    /\ result.type = "quiz"
    /\ pc = "done"
    /\ opsIssued = {}
    /\ result.durationMs = MaxElapsed
    /\ result.attempts = 0

\* ClickHandler.run: discovery failed after the navigation
C11_ClickDiscoveryFailed ==
    /\ thrown = Some(ErrorOf("locator.count: Target closed"))
    /\ result.type = "click"
    /\ pc = "done"
    /\ opsIssued = {"navigate"}

QuizRan == result.type = "quiz" /\ pc # "idle"

\* QuizHandler.run returned after its loop over the quizzes
QuizReturned == QuizRan /\ pc = "done" /\ thrown = None /\ Len(quizzes) >= 1

\* the ways the body of the loop is left with { completed: true }
CompletedHow == {"firstCheck", "check", "afterClick", "dryRun"}

\* C12: with a quiz discovered and no top-level error, QuizHandler.run
\* returns ok exactly when a quiz reached completion and failed otherwise,
\* and meta.quizzesCompleted is the number of quizzes whose handleQuiz
\* reported completion; one quiz that is complete at the first check after
\* it is opened gives quizzesCompleted = 1 and ok.
C12_QuizResult ==
    /\ QuizRan =>
          /\ completedCount = Cardinality(Successes(Len(outcomes)))
          /\ lastQuiz.how # "" =>
                (outcomes[Len(outcomes)].success <=> lastQuiz.how \in CompletedHow)
    /\ QuizReturned =>
          /\ result.status = "ok" <=> Successes(Len(outcomes)) # {}
          /\ result.status = "failed" <=> Successes(Len(outcomes)) = {}
          /\ result.meta = [quizzesCompleted |-> Cardinality(Successes(Len(outcomes)))]
          /\ (Len(quizzes) = 1 /\ lastQuiz.how = "firstCheck") =>
                result.meta.quizzesCompleted = 1 /\ result.status = "ok"

\* C12 witness: one quiz, opened live, complete at the first check.
C12_Witness ==
    /\ QuizReturned
    /\ ~cfg.dryRun
    /\ Len(quizzes) = 1
    /\ lastQuiz = [how |-> "firstCheck", elapsed |-> 0]
    /\ result.meta.quizzesCompleted = 1
    /\ result.status = "ok"
    /\ result.attempts = 1

\* three quizzes handled, the second of them the only one completed
C12_OneOfThree ==
    /\ QuizReturned
    /\ Len(outcomes) = 3
    /\ Successes(3) = {2}
    /\ result.status = "ok"

\* C13 (as claimed): a quiz is completed only when its completion was
\* detected before 60 seconds had elapsed since handleQuiz started its loop.
C13_CompletedWithinBudget ==
    (QuizRan /\ lastQuiz.how \in CompletedHow) => lastQuiz.elapsed < 60000

\* C13 (amended): a quiz whose completion has not been detected when the
\* check at the head of a loop iteration finds 60 seconds elapsed is marked
\* not completed and is not counted (alone, it makes the status failed); no
\* error is raised and the controller goes on to the next quiz.  No quiz is
\* given up before 60 seconds, and a completion detected inside an
\* iteration entered before 60 seconds counts, at most MaxOptions clicks later.
C13_TimeoutAtLoopEntry ==
    /\ (QuizRan /\ lastQuiz.how = "timeout") =>
          /\ lastQuiz.elapsed >= 60000
          /\ ~outcomes[Len(outcomes)].success
          /\ completedCount = Cardinality(Successes(Len(outcomes) - 1))
          /\ thrown = None
          /\ quizIdx = Len(outcomes) + 1
          /\ pc \in {"loop", "done"}
          /\ (pc = "done" /\ Len(quizzes) = 1) =>
                result.status = "failed" /\ result.meta = [quizzesCompleted |-> 0]
          /\ (pc = "done") => (quizIdx > Len(quizzes) \/ completedCount >= cfg.maxActionsPerHour)
    /\ (QuizRan /\ lastQuiz.how \in CompletedHow) =>
          lastQuiz.elapsed < 60000 + MaxOptions * 2000
    /\ (QuizRan /\ lastQuiz.how \in {"firstCheck", "check", "dryRun", "error"}) =>
          lastQuiz.elapsed < 60000

\* C13 witness: the only quiz ran out of time; run returned failed.
C13_Witness ==
    /\ QuizReturned
    /\ Len(quizzes) = 1
    /\ lastQuiz.how = "timeout"
    /\ result.status = "failed"
    /\ thrown = None

\* the first quiz ran out of time and the loop stands before the second
C13_MovesOn ==
    /\ QuizRan
    /\ pc = "loop"
    /\ lastQuiz.how = "timeout"
    /\ quizIdx = 2
    /\ quizIdx <= Len(quizzes)

\* C14 (as claimed): in dry-run every discovered quiz is reported completed
\* at once, whatever the page shows (reads of the page that reject aside).
C14_DryRunCompletesAtOnce ==
    (QuizRan /\ cfg.dryRun /\ lastQuiz.how \notin {"", "error"}) =>
        outcomes[Len(outcomes)].success

\* a dry run gave its only quiz up after 60 seconds without options and
\* returned failed
C14_DryRunTimedOut ==
    /\ QuizReturned
    /\ cfg.dryRun
    /\ Len(quizzes) = 1
    /\ lastQuiz.how = "timeout"
    /\ result.status = "failed"
    /\ opsIssued = {"navigate"}

\* C15: with dryRun, QuizHandler.run clicks no quiz card and no answer option.
C15_DryRunNeverClicks ==
    (QuizRan /\ cfg.dryRun) => opsIssued \subseteq {"navigate"}

\* C15 witness: a dry run over two quizzes, with options shown, returned.
C15_Witness ==
    /\ QuizReturned
    /\ cfg.dryRun
    /\ Len(outcomes) >= 2
    /\ lastQuiz.how = "dryRun"
    /\ opsIssued = {"navigate"}

\* C16 (as claimed): result.attempts never exceeds maxActionsPerHour.
C16_QuizAttemptsWithinMaxActions ==
    QuizRan => result.attempts <= cfg.maxActionsPerHour

\* the card a discovered quiz was read from
QuizCardAt(q) == dashboard.quiz[q.locator[1]][q.locator[2]]

\* every quiz card of the page
AllQuizCards == UNION {{dashboard.quiz[sel][i] : i \in 1..Len(dashboard.quiz[sel])} :
                         sel \in 1..Len(dashboard.quiz)}

\* C17 (as claimed): discovery returns no completed and no locked card, and
\* a page whose only quiz cards are locked gives status skipped.
C17_NoCompletedNoLocked ==
    QuizRan =>
        /\ \A k \in 1..Len(quizzes) :
              ~QuizCardAt(quizzes[k]).completed /\ ~QuizCardAt(quizzes[k]).locked
        /\ (pc = "done" /\ thrown = None /\ AllQuizCards # {}
              /\ \A c \in AllQuizCards : c.locked) => result.status = "skipped"

\* the part of C17 the code keeps: no completed card is returned
C17_NoCompleted ==
    QuizRan => \A k \in 1..Len(quizzes) : ~QuizCardAt(quizzes[k]).completed

(***************************************************************************)
(* C18: the page when run returns                                          *)
(***************************************************************************)
\* the run got past its first goto: it has acted on the page
Interacted == pc # "idle" /\ "navigate" \in opsIssued

\* C18 (as claimed): whenever ClickHandler.run or QuizHandler.run returns
\* after having interacted with the page, the shared page is pointed at the
\* dashboard root, whichever way the run was left
C18_ReturnsOnDashboard ==
    (pc = "done" /\ Interacted) => pageAt = DashboardUrl

\* ClickHandler.run returned with the page on the results page the last
\* activity opened: the attempt failed after its click
C18_ClickFailedOnSearch ==
    /\ ClickRan
    /\ pc = "done"
    /\ thrown = None
    /\ lastOps.failedAt = "press Enter"
    /\ pageAt = SearchUrl

\* ClickHandler.run returned ok with the page on the results page the last
\* activity opened: an explore activity without a query, left at line 512
C18_ClickOkOnSearch ==
    /\ ClickRan
    /\ pc = "done"
    /\ result.status = "ok"
    /\ outcomes[Len(outcomes)].success
    /\ lastOps.ops # <<>>
    /\ pageAt = SearchUrl

\* QuizHandler.run returned with the page on the last quiz: a page read
\* rejected inside handleQuiz
C18_QuizErrorOnQuiz ==
    /\ QuizReturned
    /\ lastQuiz.how = "error"
    /\ pageAt = QuizUrl

\* a quiz that ran out of time with the goto of line 84 resolving leaves the
\* page on the dashboard
C18_TimeoutOnDashboard ==
    /\ QuizReturned
    /\ ~cfg.dryRun
    /\ lastQuiz.how = "timeout"
    /\ pageAt = DashboardUrl

(***************************************************************************)
(* C19, C20: click-activity discovery                                      *)
(***************************************************************************)
\* findClickableActivities has returned
Discovered == ClickRan /\ pc \in {"loop", "done"} /\ thrown = None /\ Len(activities) > 0

\* the "More activities" cards the pass went over
MoreCards ==
    IF Len(dashboard.moreByHeading) = 0 THEN dashboard.moreByXPath
    ELSE dashboard.moreByHeading

\* the card an activity was made from
CardOfActivity(a) ==
    IF a.type = "standard" THEN MoreCards[a.locator[2]] ELSE dashboard.explore[a.locator[2]]

\* the explore cards that are visible, not completed, have a link, and whose
\* reads all resolve
EligibleExplore ==
    {i \in 1..Len(dashboard.explore) :
        LET card == dashboard.explore[i]
        IN  card.visible /\ ~card.completed /\ card.hasLink /\ card.throwsAt = None}

\* C19: every activity click-activity discovery returns was made from a card
\* that is visible, carries no completed indicator and has a link, and its
\* isCompleted is false; a standard activity's card also carries a points
\* indicator and is no quiz or poll card, while an explore card is returned
\* without those two conditions.  So no activity with isCompleted true
\* reaches the loop that clicks.
C19_OnlyEligibleActivities ==
    /\ \A i \in 1..Len(activities) :
          LET a    == activities[i]
              card == CardOfActivity(a)
          IN  /\ card.visible
              /\ ~card.completed
              /\ a.isCompleted = FALSE
              /\ card.hasLink
              /\ a.type = "standard" => (card.hasPoints /\ ~card.isQuiz)
    /\ (ClickRan /\ pc \in {"loop", "done"} /\ thrown = None) =>
          EligibleExplore = {activities[i].locator[2] :
                               i \in {k \in 1..Len(activities) :
                                         activities[k].type = "explore"}}

\* a dashboard with a completed card, from which discovery returned a
\* standard activity and an explore activity whose card is a quiz card
C19_Witness ==
    /\ Discovered
    /\ \E i \in 1..Len(MoreCards) : MoreCards[i].completed
    /\ \E i \in 1..Len(activities) : activities[i].type = "standard"
    /\ \E i \in 1..Len(activities) :
          /\ activities[i].type = "explore"
          /\ CardOfActivity(activities[i]).isQuiz
    /\ Len(outcomes) = Len(activities)

\* C20 (as claimed): the list one pass of click-activity discovery returns
\* never holds two activities with the same title
C20_NoDuplicateTitles ==
    \A i, j \in 1..Len(activities) :
        activities[i].title = activities[j].title => i = j

\* two standard activities with the same title were returned and both were
\* passed to clickActivity
C20_BothAttempted ==
    /\ Discovered
    /\ Len(activities) = 2
    /\ activities[1].title = activities[2].title
    /\ activities[1].type = "standard"
    /\ activities[2].type = "standard"
    /\ result.attempts = 2

(***************************************************************************)
(* C21: order of processing                                                *)
(***************************************************************************)
\* the operations of the click on the card: scrollIntoViewIfNeeded, then
\* clickLocatorHuman up to mouse.up
TriggerClick ==
    << "scroll" >> \o [i \in 1..Len(ClickHumanStages) |-> ClickHumanStages[i].op]

\* the positions of the keystrokes (typed characters, Control+A, Backspace,
\* Enter) among the operations of the last attempt
KeyPositions == {i \in 1..Len(lastOps.ops) : lastOps.ops[i].op = "key"}

\* C21: ClickHandler attempts the activities one after the other in the
\* order discovery returned them, which is every standard activity in page
\* order and then every explore activity in page order; and an attempt that
\* issues a keystroke has issued before it the whole click on the card, up
\* to its pointer-up.
C21_DiscoveryOrder ==
    /\ \A k \in 1..Len(outcomes) : ClickRan => outcomes[k].index = k
    /\ ClickRan => idx = Len(outcomes) + 1
    /\ \A i, j \in 1..Len(activities) :
          i < j => /\ activities[i].type = "explore" => activities[j].type = "explore"
                   /\ activities[i].type = activities[j].type =>
                         activities[i].locator[2] < activities[j].locator[2]
    /\ KeyPositions # {} =>
          /\ Len(lastOps.ops) > Len(TriggerClick)
          /\ \A i \in 1..Len(TriggerClick) : lastOps.ops[i].op = TriggerClick[i]
          /\ \A i \in KeyPositions : i > Len(TriggerClick)

\* two standard activities and then an explore activity were attempted, the
\* last with its search typed and submitted
C21_Witness ==
    /\ ClickRan
    /\ ~cfg.dryRun
    /\ Len(outcomes) = 3
    /\ activities[1].type = "standard"
    /\ activities[2].type = "standard"
    /\ activities[3].type = "explore"
    /\ outcomes[3].success
    /\ Cardinality(KeyPositions) >= 4

(***************************************************************************)
(* C22, C23: Humanizer                                                     *)
(***************************************************************************)
EventKinds(events) == {events[k].kind : k \in 1..Len(events)}

\* the events of one whole click: a move per point of the path, down, up
WholeClick ==
    [k \in 1..(PathSteps + 1) |-> MoveEvent(k - 1)]
    \o << PointerEvent("pointerDown"), PointerEvent("pointerUp") >>

\* the keys in events, in order
KeysOf(events) ==
    LET at == {k \in 1..Len(events) : events[k].kind = "key"}
        nth(j) == CHOOSE k \in at : Cardinality({m \in at : m <= k}) = j
    IN  [j \in 1..Cardinality(at) |-> events[nth(j)].key]

\* C22: clickHuman, and clickLocatorHuman, on a target whose bounding box is
\* null rejects with its not-visible error, and has issued no pointer-move,
\* pointer-down or pointer-up before
C22_NoBoxNoPointer ==
    (humanizer.method \in ClickMethods /\ humanizer.pc # "idle" /\ ~humanizer.box) =>
        /\ humanizer.events = <<>>
        /\ humanizer.pc \in {"boundingBox", "done"}
        /\ humanizer.pc = "done" =>
              humanizer.thrown \in {Some(NotVisible(humanizer.method)), Some("Target closed")}
        /\ humanizer.thrown = Some(NotVisible(humanizer.method)) =>
              humanizer.events = <<>>

\* clickLocatorHuman found no box and rejected with 'Element not visible'
C22_Witness ==
    /\ humanizer.method = "clickLocatorHuman"
    /\ ~humanizer.box
    /\ humanizer.pc = "done"
    /\ humanizer.thrown = Some("Element not visible")
    /\ humanizer.events = <<>>

\* clickHuman found no box and rejected with its message
C22_ClickHumanRejected ==
    /\ humanizer.method = "clickHuman"
    /\ ~humanizer.box
    /\ humanizer.pc = "done"
    /\ humanizer.thrown = Some("Element #input not visible")

\* C23: typeHuman issues the keystrokes of text one per character and in the
\* order of text, and none before the focusing click is whole (its
\* pointer-down, then its pointer-up); when it returns it has issued the
\* click and one keystroke per character, none for the empty string
C23_ClickThenType ==
    (humanizer.method = "typeHuman" /\ humanizer.pc # "idle") =>
        LET events == humanizer.events
            keys   == KeysOf(events)
        IN  /\ Len(keys) <= Len(humanizer.text)
            /\ keys = SubSeq(humanizer.text, 1, Len(keys))
            /\ Len(keys) > 0 => events = WholeClick \o [k \in 1..Len(keys) |-> KeyEvent(keys[k])]
            /\ (humanizer.pc = "done" /\ humanizer.thrown = None) =>
                  events = WholeClick \o [k \in 1..Len(humanizer.text) |->
                                             KeyEvent(humanizer.text[k])]

\* typeHuman returned after typing "hi"
C23_Witness ==
    /\ humanizer.method = "typeHuman"
    /\ humanizer.pc = "done"
    /\ humanizer.thrown = None
    /\ humanizer.text = <<"h", "i">>
    /\ KeysOf(humanizer.events) = <<"h", "i">>

\* typeHuman returned for the empty string: the click and no keystroke
C23_EmptyString ==
    /\ humanizer.method = "typeHuman"
    /\ humanizer.pc = "done"
    /\ humanizer.thrown = None
    /\ humanizer.text = <<>>
    /\ humanizer.events = WholeClick

(***************************************************************************)
(* C24: generateMousePath                                                  *)
(***************************************************************************)
\* the number v (NaN when v.d = 0) equals the integer k
NumEq(v, k) == v.d # 0 /\ v.n = k * v.d

\* the path returned has steps + 1 points, the first at the start and the
\* last at the end
EndpointsHold ==
    LET a == mousePath.args
        path == mousePath.path
    IN  /\ Len(path) = a.steps + 1
        /\ NumEq(path[1].x, a.startX)
        /\ NumEq(path[1].y, a.startY)
        /\ NumEq(path[Len(path)].x, a.endX)
        /\ NumEq(path[Len(path)].y, a.endY)

\* C24 (as claimed): for all endpoints, every value of steps and every
\* jitter of the control points, generateMousePath returns steps + 1 points,
\* the first equal to (x0, y0) and the last equal to (x1, y1)
C24_EndpointsForEverySteps ==
    mousePath.pc = "done" => EndpointsHold

\* C24 (amended): the same for every integer steps of at least 1
C24_EndpointsForPositiveSteps ==
    (mousePath.pc = "done" /\ mousePath.args.steps >= 1) => EndpointsHold

\* a path of three points between distinct endpoints, bent by the jitter
C24_Witness ==
    /\ mousePath.pc = "done"
    /\ mousePath.args.steps = 2
    /\ mousePath.args.startX # mousePath.args.endX
    /\ mousePath.args.jitter.c1x = 24
    /\ Len(mousePath.path) = 3
    /\ ~NumEq(mousePath.path[2].x, mousePath.args.startX)

\* steps = 0: the one point returned is (NaN, NaN)
C24_ZeroStepsIsNaN ==
    /\ mousePath.pc = "done"
    /\ mousePath.args.steps = 0
    /\ Len(mousePath.path) = 1
    /\ mousePath.path[1].x.d = 0
    /\ mousePath.path[1].y.d = 0

(***************************************************************************)
(* C25, C26: QACache                                                       *)
(***************************************************************************)
\* the words of a question: the maximal runs of letters and digits, in lower
\* case, that whitespace separates once every other character is dropped
WordsOf(question) ==
    LET s      == StripOther(MapLower(question))
        starts == {i \in 1..Len(s) : s[i] \notin WhiteSpace
                                      /\ (i = 1 \/ s[i - 1] \in WhiteSpace)}
        end(i) == CHOOSE j \in i..Len(s) :
                     /\ \A k \in i..j : s[k] \notin WhiteSpace
                     /\ (j = Len(s) \/ s[j + 1] \in WhiteSpace)
        nth(n) == CHOOSE i \in starts : Cardinality({k \in starts : k <= i}) = n
    IN  [n \in 1..Cardinality(starts) |-> SubSeq(s, nth(n), end(nth(n)))]

\* the pairs of questions with the same normalized form: the same words in
\* the same order
SameNormalForm == {p \in Questions \X Questions : WordsOf(p[1]) = WordsOf(p[2])}

\* C25: two raw strings with the same normalized form (lower-cased, every
\* character but a-z, 0-9 and whitespace removed, whitespace runs collapsed,
\* trimmed) have the same hash, and a record stored under one of them is
\* what lookup returns under the other
C25_HashOfNormalForm ==
    /\ \A p \in SameNormalForm : hashQuestion(p[1]) = hashQuestion(p[2])
    /\ lastStore # None =>
          \A q \in Questions :
              <<q, lastStore[1].question>> \in SameNormalForm =>
                  /\ lastStore[1].hash \in DOMAIN cache
                  /\ lookup(q) = Some(cache[lastStore[1].hash])
                  /\ cache[lastStore[1].hash].questionHash = lastStore[1].hash

\* a record stored under "a ? b" is found under "A b"
C25_Witness ==
    /\ lastStore # None
    /\ lastStore[1].question = <<"a", " ", "?", " ", "b">>
    /\ lastStore[1].before = None
    /\ lookup(<<"A", " ", "b">>) = Some(lastStore[1].record)

\* C26: after any sequence of store calls getConfidence(question) is 0
\* exactly when the cache holds no record for the question's hash, 1.0
\* exactly when the record held is correct, 0.3 exactly when it is not, and
\* never another value (values in tenths); so after a store it is 1.0 when
\* the answer stored, or the one kept, is correct and 0.3 otherwise
C26_ConfidenceValues ==
    /\ \A q \in Questions :
          LET h == hashQuestion(q)
              c == getConfidence(q)
          IN  /\ c \in {0, 3, 10}
              /\ c = 0 <=> h \notin DOMAIN cache
              /\ c = 10 <=> (h \in DOMAIN cache /\ cache[h].correct)
              /\ c = 3 <=> (h \in DOMAIN cache /\ ~cache[h].correct)
    /\ lastStore # None =>
          getConfidence(lastStore[1].question) =
              IF \/ lastStore[1].record.correct
                 \/ (lastStore[1].before # None /\ lastStore[1].before[1].correct)
              THEN 10 ELSE 3

\* the cache holds a correct record, an incorrect one, and none for a third
\* question
C26_Witness ==
    /\ nCalls >= 2
    /\ getConfidence(<<"A", "?">>) = 10
    /\ getConfidence(<<"b">>) = 3
    /\ getConfidence(<<"A", " ", "b">>) = 0



\* C27: Storage writes are atomic with respect to the target file: at every
\* step of save, a throwing file system call or the death of the process
\* between the temp write and the rename included, the target holds the whole
\* document it held when the save began or the whole new document, never a
\* part of one.
C27_TargetOldOrNew ==
    /\ storage.file.whole
    /\ storage.file \in {storage.old, Whole(Written(storage.data))}
    /\ storage.pc \in {"mkdir", "write", "rename"} => storage.file = storage.old

\* the process died between the temp write and the rename: the temp file holds
\* the new document and the target still the other one saved before
C27_Witness ==
    /\ ~storage.alive
    /\ storage.pc = "rename"
    /\ storage.temp = Whole(Written(storage.data))
    /\ storage.file.exists
    /\ storage.file = storage.old
    /\ storage.file # Whole(Written(storage.data))

\* a write of the temp file stopped half way, and the target is untouched
C27_PartialTemp ==
    /\ storage.temp.exists
    /\ ~storage.temp.whole
    /\ storage.file.exists
    /\ storage.file.doc # storage.temp.doc

\* C28: when a fatal error escapes inside main (the browser fails to launch,
\* or a later step throws), browser.close is performed before the process
\* ends, and the process ends with exit code 1.
C28_CleanupBeforeExit ==
    (mainProc.fatal /\ mainProc.exitCode # None) =>
        /\ mainProc.exitCode = Some(1)
        /\ \E i \in DOMAIN adapter.log : adapter.log[i].op \in {"close", "closeRejected"}

\* the exit code alone is as claimed
C28_ExitCodeOne ==
    (mainProc.fatal /\ mainProc.exitCode # None) => mainProc.exitCode = Some(1)

\* the process has ended on a fatal error with a launched context never closed
C28_ContextLeftOpen ==
    /\ mainProc.fatal
    /\ mainProc.pc = "exited"
    /\ adapter.context # None
    /\ adapter.contexts[adapter.context[1]] = 0

CloseOps == {"close", "closeRejected"}

\* C29: BrowserAdapter.close is idempotent: called any number of times, never
\* initialized, initialized or already closed, no call throws, no context is
\* closed more than once, every call leaves no context and no page, and a
\* call right after another leaves the state the first one left.
C29_CloseIdempotent ==
    /\ \A i \in DOMAIN adapter.log :
          adapter.log[i].op \in CloseOps =>
              /\ ~adapter.log[i].threw
              /\ adapter.log[i].after.context = None
              /\ adapter.log[i].after.page = None
              /\ adapter.log[i].after.browser = None
              /\ (i > 1 /\ adapter.log[i - 1].op \in CloseOps) =>
                    adapter.log[i].after = adapter.log[i - 1].after
    /\ \A id \in DOMAIN adapter.contexts : adapter.contexts[id] <= 1

\* close on a new adapter, then a launch, then two calls of close, the first
\* with a context whose close() rejects
C29_Witness ==
    /\ Len(adapter.log) = 4
    /\ adapter.log[1].op = "close"
    /\ adapter.log[2].op = "init"
    /\ ~adapter.log[2].threw
    /\ adapter.log[3].op = "closeRejected"
    /\ adapter.log[4].op = "close"
    /\ adapter.contexts = <<1>>

\* C30: after each live activity handled by clickActivity, on every exit path
\* (exceptions included) and wherever the original tab is in the tab list,
\* every other tab is closed and the original tab is in front: exactly one
\* tab remains open.
C30_OneTabAfterActivity ==
    (ClickRan /\ ~cfg.dryRun /\ outcomes # <<>>) =>
        /\ ~lastOps.othersOpen
        /\ lastOps.origFocused

\* an activity that ran to its end with the original tab listed first leaves
\* one tab
C30_SweptWhenFirst ==
    /\ ClickRan /\ ~cfg.dryRun /\ outcomes # <<>>
    /\ lastOps.failedAt = ""
    /\ \E i \in 1..Len(lastOps.ops) : lastOps.ops[i].op = "tabClose"
    /\ ~lastOps.othersOpen
    /\ lastOps.origFocused

\* an activity failed after its click and left the tab the click opened
C30_TabLeftOnError ==
    /\ ClickRan /\ ~cfg.dryRun /\ outcomes # <<>>
    /\ lastOps.failedAt # ""
    /\ lastOps.othersOpen

(***************************************************************************)
(* C31: the way back to the dashboard after each quiz                      *)
(***************************************************************************)
\* C31: after each quiz attempt of a live QuizHandler.run (completed, timed
\* out or failed with an error), the page is back on the dashboard root
\* before the next discovered quiz is considered.
C31_BackBeforeNextQuiz ==
    (QuizRan /\ ~cfg.dryRun /\ pc = "loop" /\ outcomes # <<>>) => pageAt = DashboardUrl

\* a quiz that completed, with the goto of line 84 resolving, leaves the page
\* on the dashboard for the next quiz
C31_BackAfterCompleted ==
    /\ QuizRan /\ ~cfg.dryRun /\ pc = "loop" /\ quizIdx <= Len(quizzes)
    /\ lastQuiz.how \in CompletedHow
    /\ pageAt = DashboardUrl

\* a page read rejected inside handleQuiz: the next quiz is considered with
\* the page still on the quiz
C31_NextQuizOnQuizPage ==
    /\ QuizRan /\ ~cfg.dryRun /\ pc = "loop" /\ quizIdx <= Len(quizzes)
    /\ lastQuiz.how = "error"
    /\ pageAt = QuizUrl

(***************************************************************************)
(* C32: the pointer events of clickHuman                                   *)
(***************************************************************************)
\* the last point of a path of PathSteps steps from (0, 0) is its end point
LastPointIsTarget ==
    \A tx \in Coords, ty \in Coords :
        \A jitter \in [c1x : Jitters, c1y : Jitters, c2x : Jitters, c2y : Jitters] :
            LET last == generateMousePath(0, 0, tx, ty, PathSteps, jitter)[PathSteps + 1]
            IN  NumEq(last.x, tx) /\ NumEq(last.y, ty)

\* C32: clickHuman issues its pointer events in a fixed order: at any moment
\* the events issued are the leading part of: one move per point of the
\* path, in path order (PathSteps + 1 moves, the last at the target point),
\* then one pointer-down, then one pointer-up; a clickHuman that returns has
\* issued exactly all of them.
C32_PointerOrder ==
    (humanizer.method = "clickHuman" /\ humanizer.pc # "idle") =>
        LET events == humanizer.events
        IN  /\ Len(events) <= Len(WholeClick)
            /\ events = SubSeq(WholeClick, 1, Len(events))
            /\ (humanizer.pc = "done" /\ humanizer.thrown = None) =>
                  /\ events = WholeClick
                  /\ Cardinality({k \in 1..Len(events) : events[k].kind = "pointerMove"})
                        = PathSteps + 1
                  /\ events[PathSteps + 1].point = PathSteps
                  /\ events[PathSteps + 2].kind = "pointerDown"
                  /\ events[PathSteps + 3].kind = "pointerUp"
                  /\ LastPointIsTarget

\* clickHuman returned: PathSteps + 1 moves, pointer-down, pointer-up
C32_Witness ==
    /\ humanizer.method = "clickHuman"
    /\ humanizer.pc = "done"
    /\ humanizer.thrown = None
    /\ Len(humanizer.events) = PathSteps + 3

(***************************************************************************)
(* C33: the click point                                                    *)
(***************************************************************************)
\* |v - (origin + size / 2)| <= (tenths / 10) * size, for the number v
WithinOfCentre(v, origin, size, tenths) ==
    LET centre == (2 * origin + size) * (v.d \div 2)
        dev    == v.n - centre
        limit  == tenths * size * (v.d \div 10)
    IN  v.d # 0 /\ dev <= limit /\ -dev <= limit

\* C33 (as claimed): the click point is within 40% of the half-width of the
\* centre horizontally (0.2 * width) and within 40% of the half-height
\* vertically, for every draw and every box
C33_WithinFortyPercentOfHalf ==
    clickPoint.pc = "done" =>
        /\ WithinOfCentre(clickPoint.target.x, clickPoint.box.x, clickPoint.box.width, 2)
        /\ WithinOfCentre(clickPoint.target.y, clickPoint.box.y, clickPoint.box.height, 2)

\* C33 (amended): the click point is within 40% of the width of the centre
\* horizontally (0.4 * width, 80% of the half-width) and within 40% of the
\* height vertically, for every draw and every box
C33_WithinFortyPercentOfSize ==
    clickPoint.pc = "done" =>
        /\ WithinOfCentre(clickPoint.target.x, clickPoint.box.x, clickPoint.box.width, 4)
        /\ WithinOfCentre(clickPoint.target.y, clickPoint.box.y, clickPoint.box.height, 4)

\* Math.random() gave 0 for x: the point is 0.4 * width left of the centre,
\* at x = 100 + 25 - 20 = 105 for the box of width 50 at 100
C33_Witness ==
    /\ clickPoint.pc = "done"
    /\ clickPoint.kx = 0
    /\ clickPoint.box.x = 100
    /\ clickPoint.box.width = 50
    /\ NumEq(clickPoint.target.x, 105)
    /\ ~WithinOfCentre(clickPoint.target.x, clickPoint.box.x, clickPoint.box.width, 3)

(***************************************************************************)
(* C34: in the solve loop of handleQuiz an error of the click on an option *)
(* is never thrown out of handleQuiz: the for loop is left with the        *)
(* remaining options unvisited, no outcome is recorded for the quiz, and   *)
(* after the wait the while loop is entered again (completion and options  *)
(* read anew) when less than 60 s have elapsed.                            *)
(***************************************************************************)
\* handleQuiz is at the head of the while loop after a break out of the for loop
BrokeOut == pc = "handle" /\ options > 0 /\ optIdx <= options

C34_ClickErrorRetried ==
    [][/\ (pc = "option" /\ optIdx <= options /\ ~cfg.dryRun) =>
             /\ thrown' = thrown
             /\ result' = result
             /\ pc' \in {"option", "handle", "loop"}
             /\ pc' = "loop" =>
                   /\ lastQuiz'.how = "afterClick"
                   /\ outcomes'[Len(outcomes')].success
             /\ pc' = "option" => optIdx' = optIdx + 1
             /\ pc' = "handle" =>
                   /\ BrokeOut'
                   /\ optIdx' = optIdx
                   /\ outcomes' = outcomes
                   /\ quizIdx' = quizIdx
                   /\ hqElapsed' >= hqElapsed + 2000
       /\ (BrokeOut /\ hqElapsed < MaxDuration) =>
             /\ lastQuiz'.how # "timeout"
             /\ pc' = "option" => optIdx' = 1
      ]_vars

\* the click on the first of the options rejected, and the budget allows
\* another scan
C34_Witness ==
    /\ QuizRan
    /\ ~cfg.dryRun
    /\ BrokeOut
    /\ optIdx = 1
    /\ options = MaxOptions
    /\ hqElapsed = 2000

(***************************************************************************)
(* C35: the search query of an explore card is its description, or its     *)
(* title when the description is absent or blank, without a leading        *)
(* "search on Bing to/for" phrase (any case) and one ':', '-' or en dash   *)
(* after it; when nothing is left after the phrase, the text with the      *)
(* phrase is the query, so a source text that is not blank never gives an  *)
(* empty query.                                                            *)
(***************************************************************************)
\* what is left of a text of these parts once the phrase is taken off
AfterPhrase(p) == Trim((IF p.sep = <<":", ":">> THEN <<":">> ELSE <<>>) \o p.rest)

\* the query expected of a text of these parts
ExpectedQuery(p) ==
    IF p.phrase \in FullPhrases /\ AfterPhrase(p) # <<>> THEN AfterPhrase(p)
    ELSE Trim(PartsText(p))

\* the parts of the title that processCard gives the activity
TitleParts(title) ==
    IF title # None /\ PartsText(title[1]) # <<>> THEN title[1]
    ELSE Parts(<<>>, <<>>, <<>>, FallbackTitle(0), <<>>)

\* the parts of the text the query is taken from
SourceParts(title, description) ==
    IF description # None /\ Trim(PartsText(description[1])) # <<>> THEN description[1]
    ELSE TitleParts(title)

C35_FromTitle ==
    /\ explore.pc = "done"
    /\ explore.description = Some(Parts(<<" ">>, <<>>, <<>>, <<>>, <<" ">>))
    /\ explore.title # None
    /\ explore.title[1].phrase \in FullPhrases
    /\ explore.query = <<"best", " ", "pizza">>

(***************************************************************************)
(* C36: in click-activity discovery a read of one card that rejects        *)
(* (visibility, an indicator, the title, the link) makes processCard       *)
(* return null for that card only, and the pass goes on: the activities    *)
(* returned are made from exactly the cards whose reads all resolve.       *)
(***************************************************************************)
\* the cards of each section, by the locator discovery gives their activity
SectionCards ==
    {<<"standard", i>> : i \in 1..Len(MoreCards)}
    \cup {<<"explore", i>> : i \in 1..Len(dashboard.explore)}

LocatedCard(l) == IF l[1] = "standard" THEN MoreCards[l[2]] ELSE dashboard.explore[l[2]]

\* the cards discovery made an activity from
KeptCards == {activities[i].locator : i \in 1..Len(activities)}

\* discovery returned its list to run
PassReturned == ClickRan /\ pc \in {"loop", "done"} /\ thrown = None

\* C36 (as claimed): a rejected read of any field, the description among
\* them, skips the card
C36_AnyErrorSkipsCard ==
    PassReturned =>
       KeptCards = {l \in SectionCards :
                       /\ LocatedCard(l).throwsAt = None
                       /\ LocatedCard(l).description # None}

\* C36 (amended): a rejected read of the visibility, an indicator, the title
\* or the link skips exactly that card; a rejected read of the description
\* does not: the card is returned without a description
C36_ErrorSkipsCardButDescription ==
    PassReturned =>
       /\ KeptCards = {l \in SectionCards : LocatedCard(l).throwsAt = None}
       /\ \A i \in 1..Len(activities) :
             /\ LocatedCard(activities[i].locator).description = None
                   => activities[i].description = None
             /\ \A j \in 1..Len(activities) :
                   (i < j /\ activities[i].type = activities[j].type)
                      => activities[i].locator[2] < activities[j].locator[2]

\* two "More activities" cards, the first with a title whose read rejects:
\* the second is returned
C36_Witness ==
    /\ PassReturned
    /\ Len(MoreCards) = 2
    /\ MoreCards[1].throwsAt = Some("title")
    /\ MoreCards[2].throwsAt = None
    /\ KeptCards = {<<"standard", 2>>}
    /\ Len(outcomes) = 1

\* a card whose description read rejects is returned and attempted
C36_DescriptionRejectedKept ==
    /\ PassReturned
    /\ Len(MoreCards) = 1
    /\ MoreCards[1].throwsAt = None
    /\ MoreCards[1].description = None
    /\ KeptCards = {<<"standard", 1>>}
    /\ Len(outcomes) = 1

(***************************************************************************)
(* C37: Storage round-trips.  Once set or update has returned with no file *)
(* system call of save having thrown, a new Storage constructed on the     *)
(* same path has get() equal (toEqual) to the data of the first; and a     *)
(* Storage constructed where no file exists has get() equal to the default *)
(* it was given.                                                           *)
(***************************************************************************)
\* get() of a new Storage(filePath, defaultData) constructed now
Reloaded == load(storage.file)

C37_RoundTrip ==
    /\ (storage.alive /\ storage.pc = "idle" /\ storage.outcome = "ok") =>
          /\ storage.data = storage.arg
          /\ ToEqual(Reloaded, storage.data)
          /\ storage.file = Whole(Written(storage.arg))
    /\ (storage.alive /\ storage.pc = "idle" /\ storage.outcome = "none"
          /\ ~storage.file.exists) =>
          storage.data = DefaultData

\* a value with a property left undefined was set over another document, the
\* save went through, and the file spells the value
C37_Witness ==
    /\ storage.alive
    /\ storage.pc = "idle"
    /\ storage.outcome = "ok"
    /\ storage.saves = 2
    /\ storage.data.undefinedKeys
    /\ storage.old.exists
    /\ storage.old.doc # storage.data.doc
    /\ ToEqual(Reloaded, storage.data)

\* a run that died before its first rename left no file: the next Storage
\* holds the default
C37_DefaultAgain ==
    /\ storage.alive
    /\ storage.pc = "idle"
    /\ storage.saves = 1
    /\ storage.outcome = "none"
    /\ ~storage.file.exists
    /\ storage.data = DefaultData

(***************************************************************************)
(* C40: when a file system call of save throws, set / update return        *)
(* normally with this.data replaced: get() gives the new value while the   *)
(* target file is as it was before the call, and a later save that goes    *)
(* through brings the two together again.  A file that exists and does    *)
(* not parse makes the constructor take the default, without throwing.     *)
(***************************************************************************)
C40_FailedSaveKeepsMemory ==
    /\ storage.outcome # "escaped"
    /\ (storage.alive /\ storage.pc = "idle" /\ storage.outcome = "caught") =>
          /\ storage.data = storage.arg
          /\ storage.file = storage.old
    /\ (storage.alive /\ storage.pc = "idle" /\ storage.outcome = "ok") =>
          ToEqual(Reloaded, storage.data)
    /\ (storage.alive /\ storage.pc = "idle" /\ storage.outcome = "none"
          /\ storage.file.exists /\ ~storage.file.whole) =>
          storage.data = DefaultData

\* the save of a new value threw: memory holds the value, the file another
\* document
C40_Witness ==
    /\ storage.alive
    /\ storage.pc = "idle"
    /\ storage.outcome = "caught"
    /\ storage.file.exists
    /\ storage.file.whole
    /\ ~ToEqual(Reloaded, storage.data)
    /\ storage.data = storage.arg

\* a Storage constructed over a file that does not parse
C40_UnparsableFile ==
    /\ storage.alive
    /\ storage.saves = 0
    /\ storage.file.exists
    /\ ~storage.file.whole
    /\ storage.data = DefaultData

\* memory and file together again after the save that followed a failed one
C40_Healed ==
    /\ storage.alive
    /\ storage.pc = "idle"
    /\ storage.outcome = "ok"
    /\ storage.saves = 2
    /\ storage.old.exists
    /\ ~storage.old.whole
    /\ ToEqual(Reloaded, storage.data)

(***************************************************************************)
(* C38: ClickHandler.run and QuizHandler.run never reject.  Whatever       *)
(* operation of the page or browser throws, run goes on to return its      *)
(* ActionResult: the type is the one it was constructed with ("click" or   *)
(* "quiz") at every step, every error thrown is followed by the return,    *)
(* and the status returned is ok, failed or skipped.                       *)
(***************************************************************************)
C38_RunNeverRejects ==
    /\ [](/\ pc \in {"navigate", "discover", "loop", "handle", "option", "done"}
          /\ result.type \in {"click", "quiz"}
          /\ thrown # None => pc = "done"
          /\ pc = "done" => result.status \in Statuses)
    /\ [][result'.type = result.type]_vars

\* discovery of the quizzes threw after the navigation, and QuizHandler.run
\* returned a failed result of type quiz
C38_Witness ==
    /\ thrown = Some(ErrorOf("locator.count: Target closed"))
    /\ result.type = "quiz"
    /\ result.status = "failed"
    /\ pc = "done"
    /\ opsIssued = {"navigate"}

\* an error inside the handling of a quiz: run returned all the same
C38_QuizBodyError ==
    /\ QuizRan
    /\ pc = "done"
    /\ thrown = None
    /\ lastQuiz.how = "error"
    /\ result.status = "failed"
    /\ result.type = "quiz"

(***************************************************************************)
(* C39: every call of handleQuiz ends, given that its page operations      *)
(* settle and each delay takes at least its minimum.  A pass of the while  *)
(* loop that does not return adds at least 1000 ms to the time elapsed; no *)
(* pass begins once 60000 ms have elapsed: the call then returns           *)
(* completed = false; so a call under way always comes to its return.      *)
(***************************************************************************)
InHandleQuiz == pc \in {"handle", "option"}

C39_HandleQuizTerminates ==
    /\ [][(InHandleQuiz /\ InHandleQuiz') =>
             /\ pc' = "handle" => hqElapsed' >= hqElapsed + 1000
             /\ (pc = "handle" /\ pc' = "option") =>
                   (hqElapsed < MaxDuration /\ hqElapsed' = hqElapsed)
             /\ (pc = "option" /\ pc' = "option") => hqElapsed' >= hqElapsed + 1000
             /\ (pc = "option" /\ pc' = "option") => optIdx' = optIdx + 1
         ]_vars
    /\ [][(pc = "handle" /\ hqElapsed >= MaxDuration) =>
             /\ pc' = "loop"
             /\ lastQuiz' = [how |-> "timeout", elapsed |-> hqElapsed]
             /\ ~outcomes'[Len(outcomes')].success
         ]_vars
    /\ InHandleQuiz ~> (pc = "loop")

\* two quizzes that showed no options to the end: both calls returned
\* completed = false at 60000 ms
C39_Witness ==
    /\ QuizRan
    /\ ~cfg.dryRun
    /\ pc = "loop"
    /\ Len(outcomes) = 2
    /\ ~outcomes[1].success
    /\ ~outcomes[2].success
    /\ lastQuiz = [how |-> "timeout", elapsed |-> MaxDuration]
    /\ completedCount = 0

==============================================================================
